---- MODULE Spec2Model ----
(***************************************************************************)
(* JobMap: the per-IP rate limiter of pages/api/jobs.ts, the provider      *)
(* throttle (p-throttle) used by utils/geocode.ts and pages/api/jobs.ts,   *)
(* and the geocode resolver of utils/geocode.ts.                           *)
(***************************************************************************)
EXTENDS Integers, Sequences, FiniteSets, TLC

(***************************************************************************)
(* Bounds of the model.                                                    *)
(***************************************************************************)
\* clock advances explored by the rate-limiter specifications
MaxTicks == 2
\* admission calls explored beyond rateLimitMax inside one window
MaxOver == 1
\* calls submitted to a throttle instance beyond its limit
MaxQueued == 2
\* clock advances explored while a throttle is idle or waiting
MaxElapse == 1
\* wrapped operations that fail in one behaviour
MaxFailures == 1
\* calls of fetchGeocodeIfNeeded in one behaviour
MaxResolves == 2
\* import runs (POSTs of the cron route) in one behaviour
MaxRuns == 2
\* /api/jobs requests in one behaviour
MaxRequests == 1
\* jobs in the list handed to the handler's sort
MaxListed == 3
\* loadJobs calls of the page in one behaviour
MaxLoads == 3

(***************************************************************************)
(* Rate limiter: pages/api/jobs.ts                                         *)
(***************************************************************************)
rateLimitWindowMs == 60000
rateLimitMax == 60

\* client identifiers (the `ip` argument)
Keys == {"ipA", "ipB"}
\* ipStore.get(ip) === undefined
NoRec == [ts |-> -1, count |-> 0]
\* the retryAfterMs field is absent from { ok: true }
Undefined == -1

VARIABLES
    now,        \* Date.now(), in ms
    ticks,      \* number of clock advances so far
    ipStore,    \* Map<string, {ts, count}>
    rl,         \* the last checkRateLimit call: its argument, result and pre-state
    nth,        \* per key: admission calls made since the key's window was started
    logging,    \* whether allowedLog is kept (burst specification)
    allowedLog  \* per key: time -> number of allowed calls, for times in [now-W, now]

VARIABLES
    thCfg,      \* the throttle instance the behaviour exercises ({limit, interval})
    calls,      \* calls submitted to it, in submission order
    queue,      \* ids (indices of calls) whose wrapped operation has not started
    failedWhileQueued   \* an operation has failed while another call was waiting

VARIABLES
    useMapbox,  \* USE_MAPBOX: a MAPBOX_TOKEN is configured
    cache,      \* Map<string, Geo>: key -> {lat, lon} or null, for the keys it has
    res         \* the calls of fetchGeocodeIfNeeded, in call order

rlVars == <<ipStore, rl, nth, logging, allowedLog>>
thVars == <<thCfg, calls, queue, failedWhileQueued>>
VARIABLES
    env,        \* process.env of the import route: CRON_SECRET and the credentials
    run,        \* the import run (one POST of the cron route) in progress or last ended
    runs,       \* number of import runs begun
    publicJobs,      \* the rows of public.jobs
    lastWritten \* per uniq_hash: the row most recently written to the store

VARIABLES
    req,        \* the /api/jobs request in progress or last answered
    nreq,       \* number of /api/jobs requests begun
    jobsEnv     \* process.env of the query handler: NODE_ENV and the credentials

VARIABLES
    params,     \* req.query of a request whose parameters alone are followed, and one job
    derived     \* what the handler computes from them: the upstream url, the filter's verdict

VARIABLES
    jobsTable,      \* public.jobs: id -> row (lat, lon, geom)
    geocodeTable,   \* public.geocode_cache: key -> row (lat, lon, geom)
    rpc             \* the last call of jobs_within_km: its arguments and its rows

VARIABLES
    controllerRef,  \* useDebouncedFetch: the load whose AbortController is current, 0 for null
    timerRef,       \* useDebouncedFetch: the load whose debounce timer was set last, 0 for null
    loads,          \* the loadJobs calls of the page in call order, each with its position
    homeJobs,       \* the page's jobs state (useState), handed to the map as its jobs prop
    mapRef,         \* the map component: whether the Leaflet map was created
    view,           \* the created map's zoom and bounds
    index,          \* the cluster index of the current render (useMemo on jobs)
    handlerIndex,   \* the index the moveend/zoomend listener closed over
    clusters        \* the map component's clusters state, with the query that produced it

geoVars == <<useMapbox, cache, res>>
impVars == <<env, run, runs, publicJobs, lastWritten>>
qVars == <<req, nreq, jobsEnv>>
pVars == <<params, derived>>
dbVars == <<jobsTable, geocodeTable, rpc>>
uiVars == <<controllerRef, timerRef, loads, homeJobs, mapRef, view, index, handlerIndex,
           clusters>>
vars == <<now, ticks, ipStore, rl, nth, logging, allowedLog, thCfg, calls, queue,
         failedWhileQueued, useMapbox, cache, res, env, run, runs, publicJobs,
         lastWritten, req, nreq, jobsEnv, params, derived, jobsTable, geocodeTable, rpc,
         controllerRef, timerRef, loads, homeJobs, mapRef, view, index, handlerIndex,
         clusters>>

\* if (!rec || now - rec.ts > rateLimitWindowMs)
WindowElapsed(rec, t) == rec = NoRec \/ t - rec.ts > rateLimitWindowMs

\* if (rec.count >= rateLimitMax)
SaturatedOffByOne(rec) == rec.count > rateLimitMax
Saturated(rec) == rec.count >= rateLimitMax

\* return { ok: false, retryAfterMs: rateLimitWindowMs - (now - rec.ts) }
RetryAfterMs(rec, t) == rateLimitWindowMs - (t - rec.ts)

\* the map after `return { ok: false, ... }`: nothing was set
RejectedCounting(store, ip, rec) == [store EXCEPT ![ip] = [ts |-> rec.ts, count |-> rec.count + 1]]
RejectedLeaves(store, ip, rec) == store

\* function checkRateLimit(ip): the new ipStore and the returned object
checkRateLimit(store, ip, t) ==
    LET rec == store[ip] IN
    IF WindowElapsed(rec, t)
    THEN [store |-> [store EXCEPT ![ip] = [ts |-> t, count |-> 1]],
          ok |-> TRUE, retryAfterMs |-> Undefined]
    ELSE IF Saturated(rec)
    THEN [store |-> RejectedLeaves(store, ip, rec), ok |-> FALSE,
          retryAfterMs |-> RetryAfterMs(rec, t)]
    ELSE [store |-> [store EXCEPT ![ip] = [ts |-> rec.ts, count |-> rec.count + 1]],
          ok |-> TRUE, retryAfterMs |-> Undefined]

\* t lies in the window [rec.ts, rec.ts + W] that rec describes
InWindow(rec, t) == rec # NoRec /\ t - rec.ts <= rateLimitWindowMs

NoCall == [key |-> "none", ok |-> TRUE, retryAfterMs |-> Undefined, at |-> -1,
           before |-> NoRec, nth |-> 0]

\* times of the log that an interval of length W ending at t still covers
InLastWindow(log, t) == {u \in DOMAIN log : t - u <= rateLimitWindowMs}
Prune(log, t) == [u \in InLastWindow(log, t) |-> log[u]]
LogAllowed(log, t) ==
    [u \in DOMAIN log \cup {t} |-> IF u \in DOMAIN log
                                    THEN (IF u = t THEN log[u] + 1 ELSE log[u])
                                    ELSE 1]
RECURSIVE SumLog(_, _)
SumLog(log, S) ==
    IF S = {} THEN 0
    ELSE LET u == CHOOSE x \in S : TRUE IN log[u] + SumLog(log, S \ {u})
\* allowed calls of key k inside [now - W, now]
AllowedInLastWindow(k) == SumLog(allowedLog[k], InLastWindow(allowedLog[k], now))

EmptyLog == [u \in {} |-> 0]

\* one request reaching `const rl = checkRateLimit(ip)` of the handler
Admitting(k) ==
    LET r == checkRateLimit(ipStore, k, now)
        n == IF InWindow(ipStore[k], now) THEN nth[k] + 1 ELSE 1
    IN  /\ n <= rateLimitMax + MaxOver
        /\ ipStore' = r.store
        /\ rl' = [key |-> k, ok |-> r.ok, retryAfterMs |-> r.retryAfterMs, at |-> now,
                  before |-> ipStore[k], nth |-> n]
        /\ nth' = [nth EXCEPT ![k] = n]
        /\ allowedLog' = IF logging /\ r.ok
                         THEN [allowedLog EXCEPT ![k] = LogAllowed(@, now)]
                         ELSE allowedLog
        /\ UNCHANGED <<now, ticks, logging, thVars, impVars, pVars, dbVars, uiVars>>
\* the admission step alone, of a request whose remaining work is not followed
Admit(k) == Admitting(k) /\ UNCHANGED <<geoVars, qVars>>

\* time passes between two requests
TickSteps == {1, rateLimitWindowMs}
Tick ==
    /\ ticks < MaxTicks
    /\ \E d \in TickSteps :
        /\ now' = now + d
        /\ allowedLog' = [k \in Keys |-> Prune(allowedLog[k], now + d)]
    /\ ticks' = ticks + 1
    /\ UNCHANGED <<ipStore, rl, nth, logging, thVars, geoVars, impVars, qVars, pVars, dbVars, uiVars>>

(***************************************************************************)
(* Provider throttle: pThrottle({limit, interval}) of the p-throttle       *)
(* package.  The two instances and the calls made through them are in the  *)
(* repository; the scheduling inside the package is modelled from its      *)
(* contract: at most `limit` starts per `interval`, excess calls queued in  *)
(* call order and released as the budget replenishes.                      *)
(***************************************************************************)
\* const nominatimThrottle = pThrottle({ limit: 1, interval: 1000 })
nominatimThrottle == [name |-> "nominatim", limit |-> 1, interval |-> 1000]
\* const throttle = pThrottle({ limit: 5, interval: 1000 })
throttle == [name |-> "adzuna", limit |-> 5, interval |-> 1000]

NotStarted == -1

\* started calls that still count against the budget at time t
RecentStartsIgnoringFailed(cs, cfg, t) ==
    {i \in DOMAIN cs : /\ cs[i].startAt # NotStarted
                       /\ cs[i].state # "failed"
                       /\ t - cs[i].startAt < cfg.interval}
RecentStarts(cs, cfg, t) ==
    {i \in DOMAIN cs : cs[i].startAt # NotStarted /\ t - cs[i].startAt < cfg.interval}
HasBudget(cs, cfg, t) == Cardinality(RecentStarts(cs, cfg, t)) < cfg.limit

\* the queued call released next
NewestFirst(q) == q[Len(q)]
NextToStart(q) == Head(q)
Without(q, c) == SelectSeq(q, LAMBDA x : x # c)

\* what a call to a throttled function does to the queue
DropWhenBusy(q, c, busy) == IF busy THEN q ELSE Append(q, c)
Enqueue(q, c, busy) == Append(q, c)

Min(S) == CHOOSE x \in S : \A y \in S : x <= y
Max(S) == CHOOSE x \in S : \A y \in S : x >= y
\* when the budget next replenishes
NextDue == Min({calls[i].startAt + thCfg.interval : i \in RecentStarts(calls, thCfg, now)})

StartEnabled == queue # <<>> /\ HasBudget(calls, thCfg, now)

\* a caller invokes a throttled function: geocodeNominatimThrottled(query) or
\* fetchThrottled(url)
MaxCalls(cfg) == cfg.limit + MaxQueued
Submitted(owner) ==
    /\ calls' = Append(calls, [submitAt |-> now, startAt |-> NotStarted,
                               state |-> "queued", owner |-> owner])
    /\ queue' = Enqueue(queue, Len(calls) + 1,
                        ~HasBudget(calls, thCfg, now) \/ queue # <<>>)
Submit ==
    /\ Len(calls) < MaxCalls(thCfg)
    /\ Submitted(0)
    /\ UNCHANGED <<now, ticks, thCfg, failedWhileQueued, rlVars, geoVars, impVars, qVars, pVars, dbVars, uiVars>>

\* the throttle starts the wrapped operation of a queued call
Start ==
    /\ StartEnabled
    /\ LET c == NextToStart(queue) IN
        /\ calls' = [calls EXCEPT ![c].startAt = now, ![c].state = "running"]
        /\ queue' = Without(queue, c)
    /\ UNCHANGED <<now, ticks, thCfg, failedWhileQueued, rlVars, geoVars, impVars, qVars, pVars, dbVars, uiVars>>

\* the wrapped operation of a started call throws or rejects (a failed fetch,
\* throw new Error(`Adzuna error ...`)); one that returns changes nothing here
Failed(cs) == {i \in DOMAIN cs : cs[i].state = "failed"}
Fail ==
    /\ Cardinality(Failed(calls)) < MaxFailures
    /\ \E c \in DOMAIN calls :
        /\ calls[c].state = "running"
        /\ calls[c].owner = 0
        /\ calls' = [calls EXCEPT ![c].state = "failed"]
    /\ failedWhileQueued' = (failedWhileQueued \/ queue # <<>>)
    /\ UNCHANGED <<now, ticks, thCfg, queue, rlVars, geoVars, impVars, qVars, pVars, dbVars, uiVars>>

\* time passes while no release is due
ThrottleSteps == {1, 1000}
Elapse ==
    /\ ~StartEnabled
    /\ ticks < MaxElapse
    /\ \E d \in ThrottleSteps :
        /\ queue # <<>> => now + d <= NextDue
        /\ now' = now + d
    /\ ticks' = ticks + 1
    /\ UNCHANGED <<thVars, rlVars, geoVars, impVars, qVars, pVars, dbVars, uiVars>>

\* time passes until the budget replenishes for a waiting call
TimerFires ==
    /\ queue # <<>>
    /\ ~HasBudget(calls, thCfg, now)
    /\ now' = NextDue
    /\ UNCHANGED <<ticks, thVars, rlVars, geoVars, impVars, qVars, pVars, dbVars, uiVars>>


(***************************************************************************)
(* Geocode resolver: utils/geocode.ts                                      *)
(***************************************************************************)
\* strings are sequences of characters; Absent is an argument left undefined
Absent == <<"undefined">>
\* the {company, city} arguments explored
Inputs == {[company |-> Absent,        city |-> <<>>],
           [company |-> <<" ">>,       city |-> <<" ">>],
           [company |-> <<"A">>,       city |-> <<"P">>],
           [company |-> <<"a", " ">>,  city |-> <<" ", "p">>],
           [company |-> Absent,        city |-> <<"P">>]}

\* JavaScript truthiness of a string | undefined
Truthy(s) == s # Absent /\ s # <<>>
\* (s || '')
OrEmpty(s) == IF Truthy(s) THEN s ELSE <<>>
\* String.prototype.trim
RECURSIVE TrimStart(_)
TrimStart(s) == IF s # <<>> /\ Head(s) = " " THEN TrimStart(Tail(s)) ELSE s
RECURSIVE TrimEnd(_)
TrimEnd(s) ==
    IF s # <<>> /\ s[Len(s)] = " " THEN TrimEnd(SubSeq(s, 1, Len(s) - 1)) ELSE s
Trim(s) == TrimEnd(TrimStart(s))
\* String.prototype.toLowerCase
LowerChar(ch) ==
    CASE ch = "A" -> "a" [] ch = "P" -> "p" [] ch = "T" -> "t"
      [] ch = "N" -> "n" [] ch = "U" -> "u" [] OTHER -> ch
ToLowerCase(s) == [i \in DOMAIN s |-> LowerChar(s[i])]
\* const key = `${(company || '').trim().toLowerCase()}|${(city || '').trim().toLowerCase()}`
Key(company, city) ==
    ToLowerCase(Trim(OrEmpty(company))) \o <<"|">> \o ToLowerCase(Trim(OrEmpty(city)))
\* if (!company && !city) return null
BothEmpty(company, city) == ~Truthy(company) /\ ~Truthy(city)

\* type Geo = { lat, lon } | null
Null == [kind |-> "null"]
Coords == {[kind |-> "geo", lat |-> 48, lon |-> 2], [kind |-> "geo", lat |-> 45, lon |-> 5]}

EmptyCache == [k \in {} |-> Null]
\* cache.has(key)
CacheHas(m, key) == key \in DOMAIN m
\* cache.set(key, value)
CacheSet(m, key, value) == [k \in DOMAIN m \cup {key} |-> IF k = key THEN value ELSE m[k]]

\* if (USE_MAPBOX) { res = await geocodeMapbox(...) }
PrimaryAlways(flag) == TRUE
PrimaryEnabled(flag) == flag

\* a call that returned
Returned(r, value) == [r EXCEPT !.pc = "done", !.result = value]

\* fetchGeocodeIfNeeded({company, city}) up to its first await
Resolving(company, city) ==
    /\ Len(res) < MaxResolves
    /\ LET key == Key(company, city)
           id == Len(res) + 1
           r == [company |-> company, city |-> city, key |-> key, pc |-> "entry",
                 result |-> Null, primary |-> "none", tc |-> 0,
                 cachedAtEntry |-> CacheHas(cache, key),
                 entryValue |-> IF CacheHas(cache, key) THEN cache[key] ELSE Null,
                 priorDone |-> \E c \in DOMAIN res :
                                   res[c].key = key /\ res[c].pc = "done",
                 inFlightAtEntry |-> \E c \in DOMAIN res :
                                   res[c].key = key /\ res[c].pc \in {"mapbox", "throttled"}]
       IN
       IF BothEmpty(company, city)
       THEN /\ res' = Append(res, Returned(r, Null))
            /\ UNCHANGED <<cache, calls, queue>>
       ELSE IF CacheHas(cache, key)
       THEN /\ res' = Append(res, Returned(r, cache[key]))
            /\ UNCHANGED <<cache, calls, queue>>
       ELSE IF PrimaryEnabled(useMapbox)
       THEN \* res = await geocodeMapbox(query): the fetch is issued
            /\ res' = Append(res, [r EXCEPT !.pc = "mapbox", !.primary = "pending"])
            /\ UNCHANGED <<cache, calls, queue>>
       ELSE \* res = await geocodeNominatimThrottled(query)
            /\ res' = Append(res, [r EXCEPT !.pc = "throttled", !.tc = Len(calls) + 1])
            /\ Submitted(id)
            /\ UNCHANGED cache
    /\ UNCHANGED <<now, ticks, thCfg, failedWhileQueued, useMapbox, rlVars, impVars, pVars, dbVars, uiVars>>
\* a call of fetchGeocodeIfNeeded whose caller is not followed
Resolve(company, city) == Resolving(company, city) /\ UNCHANGED qVars

\* geocodeMapbox settles: a feature, no result (!r.ok or no feature), or an
\* exception (fetch rejects, r.json() rejects, c.center is missing)
MapboxReturns(c) ==
    /\ res[c].pc = "mapbox"
    /\ \/ \E g \in Coords :
            \* cache.set(key, res); return res
            /\ res' = [res EXCEPT ![c] = Returned([@ EXCEPT !.primary = "hit"], g)]
            /\ cache' = CacheSet(cache, res[c].key, g)
            /\ UNCHANGED <<calls, queue>>
       \/ \* if (!res) res = await geocodeNominatimThrottled(query)
            /\ res' = [res EXCEPT ![c].primary = "miss", ![c].pc = "throttled",
                                  ![c].tc = Len(calls) + 1]
            /\ Submitted(c)
            /\ UNCHANGED cache
       \/ \* catch (err) { cache.set(key, null); return null }
            /\ res' = [res EXCEPT ![c] = Returned([@ EXCEPT !.primary = "throw"], Null)]
            /\ cache' = CacheSet(cache, res[c].key, Null)
            /\ UNCHANGED <<calls, queue>>
    /\ UNCHANGED <<now, ticks, thCfg, failedWhileQueued, useMapbox, rlVars, impVars, qVars, pVars, dbVars, uiVars>>

\* the throttled Nominatim operation, once started, settles: a first item, no
\* result (!r.ok or an empty list), or an exception (fetch or r.json() rejects)
NominatimReturns(c) ==
    /\ res[c].pc = "throttled"
    /\ calls[res[c].tc].state = "running"
    /\ \/ \E g \in Coords :
            /\ res' = [res EXCEPT ![c] = Returned(@, g)]
            /\ cache' = CacheSet(cache, res[c].key, g)
            /\ calls' = [calls EXCEPT ![res[c].tc].state = "ok"]
            /\ UNCHANGED failedWhileQueued
       \/   /\ res' = [res EXCEPT ![c] = Returned(@, Null)]
            /\ cache' = CacheSet(cache, res[c].key, Null)
            /\ calls' = [calls EXCEPT ![res[c].tc].state = "ok"]
            /\ UNCHANGED failedWhileQueued
       \/ \* catch (err) { cache.set(key, null); return null }
            /\ res' = [res EXCEPT ![c] = Returned(@, Null)]
            /\ cache' = CacheSet(cache, res[c].key, Null)
            /\ calls' = [calls EXCEPT ![res[c].tc].state = "failed"]
            /\ failedWhileQueued' = (failedWhileQueued \/ queue # <<>>)
    /\ UNCHANGED <<now, ticks, thCfg, queue, useMapbox, rlVars, impVars, qVars, pVars, dbVars, uiVars>>

(***************************************************************************)
(* Job normalizer: mapAdzunaToUpsert of app/api/cron/import-adzuna/route.ts *)
(* and mapAdzunaToJob of pages/api/jobs.ts                                 *)
(***************************************************************************)
\* a value whose typeof is not 'number' (undefined, null, a string); also the
\* null / undefined stored in lat or lon
NoNum == -999
IsNumber(x) == x # NoNum
\* 'No title', 'Unknown'
NoTitle == <<"N", "o", " ", "t", "i", "t", "l", "e">>
Unknown == <<"U", "n", "k", "n", "o", "w", "n">>

\* a raw record of json.results: title, company.display_name,
\* location.display_name, created, latitude, longitude, location.latitude,
\* location.longitude; shape "null" is a null entry of the results array
RawBase ==
    [shape |-> "object", title |-> <<"A">>, company |-> <<"A">>, city |-> <<"P">>,
     created |-> <<"T">>, latitude |-> 48, longitude |-> 2,
     locLatitude |-> NoNum, locLongitude |-> NoNum]
rBoth == RawBase
rTitleCase == [RawBase EXCEPT !.title = <<"a">>, !.latitude = 45, !.longitude = 5]
rCompanyCase == [RawBase EXCEPT !.company = <<"a">>]
rLatOnly == [RawBase EXCEPT !.company = <<"P">>, !.longitude = NoNum]
rNested == [RawBase EXCEPT !.created = <<"t">>, !.latitude = NoNum, !.longitude = NoNum,
                           !.locLatitude = 45, !.locLongitude = 5]
rNoCoords == [RawBase EXCEPT !.title = Absent, !.latitude = NoNum, !.longitude = NoNum]
rNull == [RawBase EXCEPT !.shape = "null"]
RawRecords == {rBoth, rTitleCase, rCompanyCase, rLatOnly, rNested, rNoCoords, rNull}

\* a ?? b
Coalesce(a, b) == IF a = Absent THEN b ELSE a
\* a || b
OrElse(a, b) == IF Truthy(a) THEN a ELSE b
\* reading r.title of a null entry throws inside the try of the mapper
Throws(r) == r.shape = "null"

\* typeof r.latitude === 'number' ? r.latitude
\*   : typeof r.location?.latitude === 'number' ? r.location.latitude : null
PickNumber(top, nested) ==
    IF IsNumber(top) THEN top ELSE IF IsNumber(nested) THEN nested ELSE NoNum

\* createHash('sha256').update(hashInput).digest('hex').slice(0, 40): a digest,
\* taken to differ on the different inputs explored
Sha256Hex40(input) == <<"sha256">> \o input
\* `${String(title).toLowerCase()}|${String(company)}|${String(city)}|${String(posted_at ?? '')}`
HashInput(title, company, city, posted_at) ==
    ToLowerCase(title) \o <<"|">> \o company \o <<"|">> \o city \o <<"|">>
        \o Coalesce(posted_at, <<>>)

\* function mapAdzunaToUpsert(r), for an r it does not throw on
mapAdzunaToUpsert(r) ==
    LET title == Coalesce(r.title, NoTitle)
        company == Coalesce(r.company, Unknown)
        city == Coalesce(r.city, Unknown)
        posted_at == r.created
    IN  [title |-> title, company |-> company, city |-> city, posted_at |-> posted_at,
         lat |-> PickNumber(r.latitude, r.locLatitude),
         lon |-> PickNumber(r.longitude, r.locLongitude),
         uniq_hash |-> Sha256Hex40(HashInput(title, company, city, posted_at))]

\* function mapAdzunaToJob(r), for an r it does not throw on
mapAdzunaToJob(r) ==
    [title |-> OrElse(r.title, NoTitle), company |-> OrElse(r.company, Unknown),
     city |-> OrElse(r.city, Unknown), posted_at |-> r.created,
     lat |-> PickNumber(r.latitude, r.locLatitude),
     lon |-> PickNumber(r.longitude, r.locLongitude)]

\* for (const r of allResults) { const mapped = mapAdzunaToUpsert(r); if (mapped) upserts.push(mapped) }
RECURSIVE NormalizeAll(_)
NormalizeAll(rs) ==
    IF rs = <<>> THEN <<>>
    ELSE IF Throws(Head(rs)) THEN NormalizeAll(Tail(rs))
    ELSE <<mapAdzunaToUpsert(Head(rs))>> \o NormalizeAll(Tail(rs))

(***************************************************************************)
(* Ingestion pipeline: POST of app/api/cron/import-adzuna/route.ts, and the *)
(* public.jobs table it upserts into                                       *)
(***************************************************************************)
\* const pagesToFetch = [1, 2, 3]
pagesToFetch == <<1, 2, 3>>
\* the json.results arrays a page fetch can deliver
PageBodies == {<<>>, <<rNull>>, <<rBoth>>, <<rTitleCase>>, <<rNoCoords>>,
               <<rCompanyCase, rLatOnly>>, <<rNested, rBoth>>, <<rNoCoords, rLatOnly>>}
\* values of CRON_SECRET and of the x-cron-secret header ('' when not set)
Secrets == {<<>>, <<"s">>, <<"x">>}

NoStatus == 0
NoCount == -1
IdleRun ==
    [pc |-> "idle", page |-> 0, requested |-> <<>>, allResults |-> <<>>,
     upserts |-> <<>>, sent |-> <<>>, upsertCalls |-> 0, status |-> NoStatus,
     imported |-> NoCount, failedPage |-> 0, inFlight |-> {}, secret |-> <<>>, body |-> "none"]

\* return new Response(JSON.stringify(...), { status })
Respond(r, status) == [r EXCEPT !.pc = "done", !.page = 0, !.status = status]
RespondImported(r, n) == [Respond(r, 200) EXCEPT !.imported = n]

\* the store's row set after one row is written with on_conflict=uniq_hash and
\* Prefer: resolution=merge-duplicates (uniq_hash text UNIQUE NOT NULL)
InsertOnly(st, row) == st \cup {row}
Upsert(st, row) == {r \in st : r.uniq_hash # row.uniq_hash} \cup {row}
RECURSIVE UpsertAll(_, _)
UpsertAll(st, batch) ==
    IF batch = <<>> THEN st ELSE UpsertAll(Upsert(st, Head(batch)), Tail(batch))

\* the rows of a batch that are the last of their uniq_hash in it
LastOfHash(batch) ==
    {i \in DOMAIN batch : \A j \in DOMAIN batch : j > i => batch[j].uniq_hash # batch[i].uniq_hash}
\* the row count the store's representation reports for a batch
RowsReported(batch) == Cardinality(LastOfHash(batch))
Written(lw, batch) ==
    LET hs == {batch[i].uniq_hash : i \in DOMAIN batch} IN
    [h \in DOMAIN lw \cup hs |->
        IF h \in hs THEN batch[CHOOSE i \in LastOfHash(batch) : batch[i].uniq_hash = h]
        ELSE lw[h]]

\* if (upserts.length === 0) return { imported: 0 }
NothingToUpsertNever(upserts) == FALSE
NothingToUpsert(upserts) == Len(upserts) = 0

\* the synchronous code after the page loop: map, the empty check, then the
\* fetch that POSTs the batch to the store
AfterPages(r) ==
    LET upserts == NormalizeAll(r.allResults) IN
    IF NothingToUpsert(upserts)
    THEN RespondImported([r EXCEPT !.upserts = upserts], 0)
    ELSE [r EXCEPT !.pc = "upsert", !.page = 0, !.upserts = upserts, !.sent = upserts,
                   !.upsertCalls = @ + 1]

\* the loop goes on after a page: the next fetchAdzunaPage, or the code after it
NextPage(r) ==
    IF r.page < Len(pagesToFetch)
    THEN [r EXCEPT !.page = @ + 1, !.requested = Append(@, pagesToFetch[r.page + 1]),
                   !.inFlight = @ \cup {pagesToFetch[r.page + 1]}]
    ELSE AfterPages(r)

\* fetchAdzunaPage throws (fetch rejects, !r.ok, r.json() rejects): the outer
\* catch answers 500 'Import failed'
PageFetchSkipped(r) == NextPage(r)
PageFetchFailed(r) == Respond(r, 500)

\* if (!CRON_SECRET || secret !== CRON_SECRET)
UnauthorizedUnlessEqual(configured, secret) == secret # configured
Unauthorized(configured, secret) == configured = <<>> \/ secret # configured

\* the page fetches begun when the loop is entered: for (const p of pagesToFetch)
\* { const json = await fetchAdzunaPage(p, ...) } awaits each before the next
EveryPage(ps) == {ps[i] : i \in DOMAIN ps}
FirstPage(ps) == {ps[1]}
\* the fetch of the page awaited has settled
Settled(r) == [r EXCEPT !.inFlight = @ \ {pagesToFetch[r.page]}]

\* export async function POST(req), up to its first await
POST(secret) ==
    /\ run.pc \in {"idle", "done"}
    /\ runs < MaxRuns
    /\ runs' = runs + 1
    /\ LET r == [IdleRun EXCEPT !.secret = secret] IN
       run' = IF Unauthorized(env.CRON_SECRET, secret)
              THEN Respond(r, 401)
              ELSE IF ~env.ADZUNA \/ ~env.SUPABASE
              THEN Respond(r, 500)
              ELSE [r EXCEPT !.pc = "fetch", !.page = 1,
                             !.requested = <<pagesToFetch[1]>>,
                             !.inFlight = FirstPage(pagesToFetch)]
    /\ UNCHANGED <<now, ticks, env, publicJobs, lastWritten, rlVars, thVars, geoVars, qVars, pVars, dbVars, uiVars>>

\* await fetchAdzunaPage(p, resultsPerPage) settles, and POST runs to its next await
PageReturns ==
    /\ run.pc = "fetch"
    /\ \/ run' = PageFetchFailed([Settled(run) EXCEPT !.failedPage = run.page])
       \/ \* if (!json || !Array.isArray(json.results)) continue
          run' = NextPage(Settled(run))
       \/ \E body \in PageBodies :
            \* allResults.push(...json.results)
            run' = NextPage([Settled(run) EXCEPT !.allResults = @ \o body])
    /\ UNCHANGED <<now, ticks, env, runs, publicJobs, lastWritten, rlVars, thVars, geoVars, qVars, pVars, dbVars, uiVars>>

\* the upsert request settles: the fetch rejects, the store answers an error, or
\* it has written the batch and answers with the rows, with one object, or with
\* a body resp.json() cannot parse
UpsertReturns ==
    /\ run.pc = "upsert"
    /\ \/ /\ run' = Respond(run, 500)
          /\ UNCHANGED <<publicJobs, lastWritten>>
       \/ \* if (!resp.ok) return 502
          /\ run' = Respond(run, 502)
          /\ UNCHANGED <<publicJobs, lastWritten>>
       \/ /\ publicJobs' = UpsertAll(publicJobs, run.sent)
          /\ lastWritten' = Written(lastWritten, run.sent)
          /\ \/ \* if (Array.isArray(json)) importedCount = json.length
                run' = RespondImported([run EXCEPT !.body = "rows"], RowsReported(run.sent))
             \/ \* else if (typeof json === 'object' && json !== null) importedCount = 1
                run' = RespondImported([run EXCEPT !.body = "object"], 1)
             \/ \* catch { importedCount = upserts.length }
                run' = RespondImported([run EXCEPT !.body = "unparsable"], Len(run.upserts))
    /\ UNCHANGED <<now, ticks, env, runs, rlVars, thVars, geoVars, qVars, pVars, dbVars, uiVars>>

NoRows == [h \in {} |-> 0]
ImportIdle ==
    /\ env = [CRON_SECRET |-> <<"s">>, ADZUNA |-> TRUE, SUPABASE |-> TRUE]
    /\ run = IdleRun
    /\ runs = 0
    /\ publicJobs = {}
    /\ lastWritten = NoRows

(***************************************************************************)
(* Query handler: pages/api/jobs.ts                                        *)
(***************************************************************************)
\* results.map(mapAdzunaToJob): null for an entry the mapper throws on
NullJob ==
    [title |-> Absent, company |-> Absent, city |-> Absent, posted_at |-> Absent,
     lat |-> NoNum, lon |-> NoNum]
MapJobs(raws) ==
    [i \in DOMAIN raws |-> IF Throws(raws[i]) THEN NullJob ELSE mapAdzunaToJob(raws[i])]

\* an object where a string is expected: r.company = {} (no display_name)
ObjectValue == <<"[object Object]">>
IsString(v) == v # ObjectValue
rObjCompany == [RawBase EXCEPT !.company = ObjectValue]
rObjNoCoords == [rNoCoords EXCEPT !.company = ObjectValue]
\* json.results of the upstream answer to /api/jobs
QueryBodies == PageBodies \cup {<<rObjCompany, rTitleCase>>, <<rObjNoCoords, rBoth>>}

\* Number(s) of a string that is not a number
NaN == -1000000
\* a request parameter is a sequence: <<>> when it is absent or empty, <<n>> for a
\* string whose Number() is n; bbox is the sequence bbox.split(',').map(Number)
\* (coordinates in hundredths of a degree)
NoParam == <<>>
Given(param) == param # NoParam
Number(param) == param[1]
NoFilter == [bbox |-> NoParam, center_lat |-> NoParam, center_lon |-> NoParam,
             radius_km |-> NoParam]
Queries ==
    {NoFilter,
     [NoFilter EXCEPT !.bbox = <<46, 0, 50, 10>>],
     [NoFilter EXCEPT !.bbox = <<NaN, 0, 50, 10>>],
     [NoFilter EXCEPT !.center_lat = <<48>>, !.center_lon = <<2>>, !.radius_km = <<1>>]}

\* Math.abs, Math.min, Math.max
Abs(x) == IF x < 0 THEN 0 - x ELSE x
MathMin(a, b) == IF a = NaN \/ b = NaN THEN NaN ELSE IF a <= b THEN a ELSE b
MathMax(a, b) == IF a = NaN \/ b = NaN THEN NaN ELSE IF a >= b THEN a ELSE b
\* 90 and 180 degrees
LatLimit == 90 * 100
LonLimit == 180 * 100
\* .filter((n) => !Number.isNaN(n))
Parts(tokens) == SelectSeq(tokens, LAMBDA n : n # NaN)
LooksLatFirstAll90(a, b, c, d) ==
    Abs(a) <= LatLimit /\ Abs(c) <= LatLimit /\ Abs(b) <= LatLimit /\ Abs(d) <= LatLimit
\* if (Math.abs(a) <= 90 && Math.abs(c) <= 90 && Math.abs(b) <= 180 && Math.abs(d) <= 180)
LooksLatFirst(a, b, c, d) ==
    Abs(a) <= LatLimit /\ Abs(c) <= LatLimit /\ Abs(b) <= LonLimit /\ Abs(d) <= LonLimit
\* the ranges the handler derives from const [a, b, c, d] = parts
Box(parts) ==
    LET a == parts[1]
        b == parts[2]
        c == parts[3]
        d == parts[4]
    IN  IF LooksLatFirst(a, b, c, d)
        THEN [minLat |-> MathMin(a, c), maxLat |-> MathMax(a, c),
              minLon |-> MathMin(b, d), maxLon |-> MathMax(b, d)]
        ELSE [minLat |-> MathMin(b, d), maxLat |-> MathMax(b, d),
              minLon |-> MathMin(a, c), maxLon |-> MathMax(a, c)]
\* j.lat >= minLat && j.lat <= maxLat && j.lon >= minLon && j.lon <= maxLon (a
\* comparison with undefined is false)
InBox(box, j) ==
    /\ IsNumber(j.lat) /\ IsNumber(j.lon)
    /\ j.lat >= box.minLat /\ j.lat <= box.maxLat
    /\ j.lon >= box.minLon /\ j.lon <= box.maxLon

\* haversine(lat1, lon1, lat2, lon2) with R = 6371, in km rounded up to a whole
\* number, tabulated for the points explored
HaversineTable ==
    (<<48, 2, 45, 5>> :> 5) @@ (<<45, 5, 48, 2>> :> 5)
    @@ (<<4885, 235, 4889, 238>> :> 5) @@ (<<4885, 235, 4893, 235>> :> 9)
    @@ (<<4885, 235, 4894, 235>> :> 11) @@ (<<4885, 235, 4900, 220>> :> 20)
    @@ (<<4885, 235, 4930, 235>> :> 51) @@ (<<4885, 235, 4820, 220>> :> 74)
    @@ (<<4885, 235, 220, 4800>> :> 6756) @@ (<<4885, 235, 220, 12200>> :> 11925)
HaversineKm(lat1, lon1, lat2, lon2) ==
    IF lat1 = lat2 /\ lon1 = lon2 THEN 0
    ELSE HaversineTable[<<lat1, lon1, lat2, lon2>>]
\* ... <= radius
NotBeyondStrict(km, radius) == km < radius
NotBeyond(km, radius) == km <= radius
\* haversine(centerLat, centerLon, j.lat, j.lon) <= radius (false on NaN or undefined)
WithinRadius(centerLat, centerLon, radius, j) ==
    /\ IsNumber(j.lat) /\ IsNumber(j.lon)
    /\ centerLat # NaN /\ centerLon # NaN /\ radius # NaN
    /\ NotBeyond(HaversineKm(centerLat, centerLon, j.lat, j.lon), radius)

\* let filtered = jobsWithCoords; if (bbox ...) {...} else if (center ...) {...}
BoxBranchWhenParsed(q) == Given(q.bbox) /\ Len(Parts(q.bbox)) = 4
\* if (typeof bbox === 'string' && bbox.length > 0)
BoxBranch(q) == Given(q.bbox)
Filter(q, jobs) ==
    IF BoxBranch(q)
    THEN LET parts == Parts(q.bbox) IN
         IF Len(parts) = 4
         THEN SelectSeq(jobs, LAMBDA e : InBox(Box(parts), e.job))
         ELSE jobs
    ELSE IF Given(q.center_lat) /\ Given(q.center_lon) /\ Given(q.radius_km)
    THEN SelectSeq(jobs, LAMBDA e : WithinRadius(Number(q.center_lat), Number(q.center_lon),
                                                  Number(q.radius_km), e.job))
    ELSE jobs

\* JobZ: title, company and city are strings
Valid(j) == IsString(j.title) /\ IsString(j.company) /\ IsString(j.city)

IdleReq ==
    [pc |-> "idle", ip |-> "none", query |-> NoFilter, raws |-> <<>>, mapped |-> <<>>,
     i |-> 0, out |-> <<>>, waiting |-> 0, geocoded |-> {}, fetches |-> 0,
     status |-> NoStatus, retryAfter |-> Undefined, hint |-> "none", data |-> <<>>]

\* if (typeof j.lat === 'number' && typeof j.lon === 'number')
HasCoordsNever(j) == FALSE
HasCoords(j) == IsNumber(j.lat) /\ IsNumber(j.lon)

\* return res.status(...).json({ message, hint })
Answer(r, status, hint) ==
    [r EXCEPT !.pc = "done", !.status = status, !.waiting = 0, !.hint = hint]

\* after the loop: filter, validate with JobsResponseZ, answer
Finish(r) ==
    LET filtered == Filter(r.query, r.out) IN
    IF \A o \in DOMAIN filtered : Valid(filtered[o].job)
    THEN [Answer(r, 200, "none") EXCEPT !.data = filtered]
    ELSE Answer(r, 500, "shape")

\* the for loop over mapped from position r.i on, as far as it runs without
\* awaiting: null entries are skipped, jobs with coordinates are pushed; it
\* stops at the first job to geocode, or finishes after the last job
RECURSIVE Loop(_)
Loop(r) ==
    IF r.i > Len(r.mapped) THEN Finish(r)
    ELSE LET j == r.mapped[r.i] IN
         IF j = NullJob THEN Loop([r EXCEPT !.i = @ + 1])
         ELSE IF HasCoords(j)
         THEN Loop([r EXCEPT !.i = @ + 1, !.out = Append(@, [idx |-> r.i, job |-> j])])
         ELSE [r EXCEPT !.pc = "geocode"]

\* Math.ceil(retryAfterMs / 1000) of the Retry-After header
CeilSeconds(ms) == (ms + 999) \div 1000

\* if (!rl.ok) { ... return res.status(429) }
RejectedNever(r) == FALSE
Rejected(r) == ~r.ok
\* if (requiredInProd && (!ADZUNA_APP_ID || !ADZUNA_APP_KEY))
MisconfiguredAlways(e) == ~e.credentials
Misconfigured(e) == e.production /\ ~e.credentials

\* export default async function handler(req, res), up to its first await
Request(k, q) ==
    /\ req.pc \in {"idle", "done"}
    /\ nreq < MaxRequests
    /\ nreq' = nreq + 1
    /\ Admitting(k)
    /\ LET r == checkRateLimit(ipStore, k, now)
           fresh == [IdleReq EXCEPT !.ip = k, !.query = q]
       IN
        req' = IF Rejected(r)
               THEN [Answer([IdleReq EXCEPT !.ip = k], 429, "rate")
                        EXCEPT !.retryAfter = CeilSeconds(IF r.retryAfterMs = Undefined THEN 1000
                                                 ELSE r.retryAfterMs)]
               ELSE IF Misconfigured(jobsEnv)
               THEN Answer(fresh, 500, "config")
               ELSE \* const json = await fetchThrottled(url)
                    [fresh EXCEPT !.pc = "fetch", !.fetches = 1]
    /\ UNCHANGED <<jobsEnv, geoVars>>

\* the upstream fetch settles: it throws (catch: 500), or delivers json whose
\* results are mapped and looped over up to the first await of the loop
FetchReturns ==
    /\ req.pc = "fetch"
    /\ \/ req' = Answer(req, 500, "error")
       \/ \E body \in QueryBodies :
            req' = Loop([req EXCEPT !.raws = body, !.mapped = MapJobs(body), !.i = 1])
    /\ UNCHANGED <<now, ticks, nreq, jobsEnv, rlVars, thVars, geoVars, impVars, pVars, dbVars, uiVars>>

\* const fallback = await fetchGeocodeIfNeeded({ company: j.company, city: j.city })
GeocodeNext ==
    /\ req.pc = "geocode"
    /\ req.waiting = 0
    /\ IsString(req.mapped[req.i].company)
    /\ Resolving(req.mapped[req.i].company, req.mapped[req.i].city)
    /\ req' = [req EXCEPT !.waiting = Len(res) + 1, !.geocoded = @ \cup {req.i}]
    /\ UNCHANGED <<nreq, jobsEnv>>

\* (company || '').trim is not a function: fetchGeocodeIfNeeded throws before its
\* try, and the handler's catch answers 500
GeocodeThrows ==
    /\ req.pc = "geocode"
    /\ req.waiting = 0
    /\ ~IsString(req.mapped[req.i].company)
    /\ req' = Answer(req, 500, "error")
    /\ UNCHANGED <<now, ticks, nreq, jobsEnv, rlVars, thVars, geoVars, impVars, pVars, dbVars, uiVars>>

\* else { /* If geocode failed, we skip */ }
UnresolvedKept(out, i, j) == Append(out, [idx |-> i, job |-> j])
Unresolved(out, i, j) == out

\* the awaited call has returned: if (fallback) { j.lat = ...; j.lon = ...; push }
GeocodeDone ==
    /\ req.pc = "geocode"
    /\ req.waiting # 0
    /\ res[req.waiting].pc = "done"
    /\ LET fallback == res[req.waiting].result
           j == req.mapped[req.i]
           next == [req EXCEPT !.pc = "loop", !.waiting = 0, !.i = @ + 1]
       IN  req' = IF fallback # Null
                  THEN Loop([next EXCEPT !.out =
                        Append(@, [idx |-> req.i,
                                   job |-> [j EXCEPT !.lat = fallback.lat,
                                                     !.lon = fallback.lon]])])
                  ELSE Loop([next EXCEPT !.out = Unresolved(@, req.i, j)])
    /\ UNCHANGED <<now, ticks, nreq, jobsEnv, rlVars, thVars, geoVars, impVars, pVars, dbVars, uiVars>>

(***************************************************************************)
(* The handler's computations on req.query alone: pages/api/jobs.ts        *)
(***************************************************************************)
\* const { results_per_page = '20', page = '1', ... } = req.query: the default
\* replaces a parameter that is undefined
Default(param, d) == IF param = NoParam THEN d ELSE param
\* Math.min(100, Math.max(1, Number(results_per_page)))
ResultsPerPage(results_per_page) ==
    MathMin(100, MathMax(1, Number(Default(results_per_page, <<20>>))))
\* Math.max(1, Number(page))
PageNum(page) == MathMax(1, Number(Default(page, <<1>>)))
\* buildAdzunaUrl(query, pageNum, resultsPerPage): the page of the path and the
\* results_per_page parameter
buildAdzunaUrl(page, results_per_page) ==
    [built |-> TRUE, page |-> page, results_per_page |-> results_per_page]
NoUrl == [built |-> FALSE, page |-> 0, results_per_page |-> 0]

\* values of results_per_page and page: undefined, '0' (or ''), in range, at and
\* beyond the limits, negative, not a number
PagingValues == {NoParam, <<0>>, <<1>>, <<50>>, <<100>>, <<101>>, <<0 - 5>>, <<NaN>>}
\* values of bbox (hundredths of a degree)
Boxes ==
    {<<200, 4800, 250, 4850>>, <<4800, 200, 4850, 250>>,
     <<200, 12000, 250, 12500>>, <<12000, 200, 12500, 250>>,
     <<250, 4850, 200, 4800>>, <<NaN, 4800, 250, 4850>>}
\* values of center_lat, center_lon and radius_km: none, the centre alone, the
\* centre with a radius of 0, 5, 10 or 50 km
Circles ==
    {[center_lat |-> NoParam, center_lon |-> NoParam, radius_km |-> NoParam],
     [center_lat |-> <<4885>>, center_lon |-> <<235>>, radius_km |-> NoParam]}
    \cup {[center_lat |-> <<4885>>, center_lon |-> <<235>>, radius_km |-> <<km>>] :
            km \in {0, 5, 10, 50}}
\* jobs, by lat and lon
Points ==
    {[lat |-> 4820, lon |-> 220], [lat |-> 4900, lon |-> 220],
     [lat |-> 220, lon |-> 12200], [lat |-> 220, lon |-> 4800],
     [lat |-> 4885, lon |-> 235], [lat |-> 4889, lon |-> 238],
     [lat |-> 4893, lon |-> 235], [lat |-> 4894, lon |-> 235],
     [lat |-> 4930, lon |-> 235]}
\* the spatial parameters of params, as the handler's query
SpatialQuery(ps) ==
    [bbox |-> ps.bbox, center_lat |-> ps.center_lat, center_lon |-> ps.center_lon,
     radius_km |-> ps.radius_km]

\* a missing sort key counts as 0: `x ?? 0`, `a.posted_at ? ... : 0`
OrLowest(x) == IF x = NoNum THEN 0 - 1000 ELSE x
OrZero(x) == IF x = NoNum THEN 0 ELSE x
\* Date.parse of the posted_at strings explored, in days since the epoch
DateParse(s) ==
    CASE s = <<"1969-12-31">> -> 0 - 1
      [] s = <<"1970-01-01">> -> 0
      [] s = <<"1970-01-02">> -> 1
      [] s = <<"1970-01-03">> -> 2
\* a.posted_at ? Date.parse(a.posted_at) : 0
ParsedOrZero(s) == OrZero(IF Truthy(s) THEN DateParse(s) ELSE NoNum)
\* the comparator handed to filtered.sort for a value of sort
Compare(sort, a, b) ==
    CASE sort = "salary_desc" -> OrZero(b.salary_max) - OrZero(a.salary_max)
      [] sort = "salary_asc" -> OrZero(a.salary_min) - OrZero(b.salary_min)
      [] sort = "date_desc" -> ParsedOrZero(b.posted_at) - ParsedOrZero(a.posted_at)
\* Array.prototype.sort(comparator): a stable sort
RECURSIVE InsertSorted(_, _, _)
InsertSorted(sort, list, x) ==
    IF list = <<>> THEN <<x>>
    ELSE LET last == list[Len(list)] IN
         IF Compare(sort, last, x) > 0
         THEN Append(InsertSorted(sort, SubSeq(list, 1, Len(list) - 1), x), last)
         ELSE Append(list, x)
RECURSIVE SortBy(_, _)
SortBy(sort, list) ==
    IF list = <<>> THEN <<>>
    ELSE InsertSorted(sort, SortBy(sort, SubSeq(list, 1, Len(list) - 1)), list[Len(list)])
\* if (sort === 'salary_desc') ... else if ... (any other value: no sorting)
Sort(sort, list) ==
    IF sort \in {"salary_desc", "salary_asc", "date_desc"} THEN SortBy(sort, list) ELSE list

\* values of sort: absent, the three orders, an unknown word
Sorts == {"none", "salary_desc", "salary_asc", "date_desc", "relevance"}
\* jobs to sort, by id: salaries present, zero or missing; dates before, at and
\* after the epoch or missing
SortJobs ==
    {[id |-> 1, salary_min |-> 30, salary_max |-> 50, posted_at |-> <<"1970-01-02">>],
     [id |-> 2, salary_min |-> NoNum, salary_max |-> 40, posted_at |-> Absent],
     [id |-> 3, salary_min |-> 0, salary_max |-> NoNum, posted_at |-> <<"1969-12-31">>],
     [id |-> 4, salary_min |-> 30, salary_max |-> 0, posted_at |-> <<"1970-01-03">>],
     [id |-> 5, salary_min |-> 20, salary_max |-> 50, posted_at |-> <<"1970-01-01">>]}
\* the filtered lists explored: up to MaxListed different jobs in any order
Listings ==
    {l \in UNION {[1..n -> SortJobs] : n \in 1..MaxListed} :
        \A i, j \in DOMAIN l : i # j => l[i] # l[j]}

Unset == "unset"
NoListing == [done |-> FALSE, list |-> <<>>]
NotDerived == [url |-> NoUrl, matched |-> Unset, sorted |-> NoListing]
ParamsIdle ==
    /\ params = [results_per_page |-> NoParam, page |-> NoParam, bbox |-> NoParam,
                 center_lat |-> NoParam, center_lon |-> NoParam, radius_km |-> NoParam,
                 job |-> [lat |-> NoNum, lon |-> NoNum], sort |-> "none", jobs |-> <<>>]
    /\ derived = NotDerived

\* lines 131-132 and 149 of the handler
ParsePaging ==
    /\ ~derived.url.built
    /\ derived' = [derived EXCEPT !.url =
            buildAdzunaUrl(PageNum(params.page), ResultsPerPage(params.results_per_page))]
    /\ UNCHANGED <<now, ticks, params, rlVars, thVars, geoVars, impVars, qVars, dbVars, uiVars>>

\* lines 185-226 of the handler, for jobsWithCoords = [params.job]
FilterByBox ==
    /\ derived.matched = Unset
    /\ derived' = [derived EXCEPT !.matched =
            IF Filter(SpatialQuery(params), <<[idx |-> 1, job |-> params.job]>>) # <<>>
            THEN "in" ELSE "out"]
    /\ UNCHANGED <<now, ticks, params, rlVars, thVars, geoVars, impVars, qVars, dbVars, uiVars>>

\* lines 229-239 of the handler, for filtered = params.jobs
SortListing ==
    /\ ~derived.sorted.done
    /\ derived' = [derived EXCEPT !.sorted = [done |-> TRUE,
                                              list |-> Sort(params.sort, params.jobs)]]
    /\ UNCHANGED <<now, ticks, params, rlVars, thVars, geoVars, impVars, qVars, dbVars, uiVars>>

(***************************************************************************)
(* Store schema: supabase_postgis_schema.sql                               *)
(***************************************************************************)
\* geom IS NULL; a point is <<lon, lat>>, as ST_MakePoint(lon, lat) takes them.
\* NoNum stands for the SQL NULL of a numeric column or argument.
NullGeom == <<>>
\* ST_SetSRID(ST_MakePoint(NEW.lon, NEW.lat), 4326)::geography
MakePoint(lon, lat) == <<lon, lat>>

\* ELSE NEW.geom := NULL
GeomKept(new) == new.geom
GeomCleared(new) == NullGeom
\* set_geom_from_latlon(), BEFORE INSERT OR UPDATE ON public.jobs FOR EACH ROW
set_geom_from_latlon(new) ==
    IF new.lat # NoNum /\ new.lon # NoNum
    THEN [new EXCEPT !.geom = MakePoint(new.lon, new.lat)]
    ELSE [new EXCEPT !.geom = GeomCleared(new)]
\* set_geocode_geom(), BEFORE INSERT OR UPDATE ON public.geocode_cache FOR EACH ROW
set_geocode_geom(new) ==
    IF new.lat # NoNum /\ new.lon # NoNum
    THEN [new EXCEPT !.geom = MakePoint(new.lon, new.lat)]
    ELSE [new EXCEPT !.geom = GeomCleared(new)]

\* primary keys, and the column values a statement can carry (it may set geom)
JobIds == {1, 2}
GeocodeKeys == {"a|p"}
NewRows ==
    [lat : {NoNum, 48, 45}, lon : {NoNum, 2}, geom : {NullGeom, MakePoint(5, 45)}]
NoTable == [k \in {} |-> 0]
Put(t, k, row) == [x \in DOMAIN t \cup {k} |-> IF x = k THEN row ELSE t[x]]

\* ST_Distance / ST_DWithin on geography, in metres, for the points explored
ST_Distance(g, h) ==
    IF g = h THEN 0
    ELSE IF g[1] = h[1] THEN 3336
    ELSE IF g[2] = h[2] THEN 3335
    ELSE 4718
ST_DWithin(g, h, metres) == ST_Distance(g, h) <= metres
\* GREATEST and LEAST, which ignore a NULL argument
Greatest(a, b) == IF a = NoNum THEN b ELSE IF b = NoNum THEN a ELSE IF a >= b THEN a ELSE b
Least(a, b) == IF a = NoNum THEN b ELSE IF b = NoNum THEN a ELSE IF a <= b THEN a ELSE b
\* WHERE j.geom IS NOT NULL AND ST_DWithin(j.geom, point, in_km * 1000)
Selected(t, in_lat, in_lon, in_km) ==
    {id \in DOMAIN t :
        /\ t[id].geom # NullGeom
        /\ ST_DWithin(t[id].geom, MakePoint(in_lon, in_lat), in_km * 1000)}
\* ORDER BY distance_m ASC ... LIMIT n: the ids returned, in order; rows at the
\* same distance come in either order
Answers(t, in_lat, in_lon, in_km, n) ==
    LET sel == Selected(t, in_lat, in_lon, in_km)
        len == IF Cardinality(sel) <= n THEN Cardinality(sel) ELSE n
        dist(id) == ST_Distance(t[id].geom, MakePoint(in_lon, in_lat))
    IN  {s \in [1..len -> sel] :
            /\ \A i, j \in 1..len : i < j => s[i] # s[j] /\ dist(s[i]) <= dist(s[j])
            /\ \A id \in sel : (\A i \in 1..len : s[i] # id) =>
                                    \A i \in 1..len : dist(s[i]) <= dist(id)}

NoRpc == [called |-> FALSE, limit_rows |-> NoNum, rows |-> <<>>]
StoreIdle ==
    /\ jobsTable = NoTable
    /\ geocodeTable = NoTable
    /\ rpc = NoRpc

\* INSERT INTO public.jobs
InsertJob(id, new) ==
    /\ id \notin DOMAIN jobsTable
    /\ jobsTable' = Put(jobsTable, id, set_geom_from_latlon(new))
    /\ UNCHANGED <<now, ticks, geocodeTable, rpc, rlVars, thVars, geoVars, impVars, qVars, pVars, uiVars>>
\* UPDATE public.jobs SET ... WHERE id = ...
UpdateJob(id, new) ==
    /\ id \in DOMAIN jobsTable
    /\ jobsTable' = Put(jobsTable, id, set_geom_from_latlon(new))
    /\ UNCHANGED <<now, ticks, geocodeTable, rpc, rlVars, thVars, geoVars, impVars, qVars, pVars, uiVars>>
\* INSERT INTO public.geocode_cache
InsertGeocode(key, new) ==
    /\ key \notin DOMAIN geocodeTable
    /\ geocodeTable' = Put(geocodeTable, key, set_geocode_geom(new))
    /\ UNCHANGED <<now, ticks, jobsTable, rpc, rlVars, thVars, geoVars, impVars, qVars, pVars, uiVars>>
\* UPDATE public.geocode_cache SET ... WHERE key = ...
UpdateGeocode(key, new) ==
    /\ key \in DOMAIN geocodeTable
    /\ geocodeTable' = Put(geocodeTable, key, set_geocode_geom(new))
    /\ UNCHANGED <<now, ticks, jobsTable, rpc, rlVars, thVars, geoVars, impVars, qVars, pVars, uiVars>>
\* SELECT * FROM public.jobs_within_km(in_lat, in_lon, in_km, NULL, NULL, limit_rows)
JobsWithinKm(in_lat, in_lon, in_km, limit_rows) ==
    /\ \E s \in Answers(jobsTable, in_lat, in_lon, in_km, Least(Greatest(limit_rows, 1), 1000)) :
        rpc' = [called |-> TRUE, limit_rows |-> limit_rows,
                rows |-> [i \in DOMAIN s |-> jobsTable[s[i]]]]
    /\ UNCHANGED <<now, ticks, jobsTable, geocodeTable, rlVars, thVars, geoVars, impVars, qVars, pVars, uiVars>>

(***************************************************************************)
(* The page's job loading (useDebouncedFetch and loadJobs of the Home      *)
(* page) and the map component's clustering                                *)
(***************************************************************************)
\* new supercluster({ radius: 60, maxZoom: 17 })
clusterRadius == 60
maxZoom == 17
\* the package's default for the option the component leaves out
minZoom == 0
\* <MapContainer center={center} zoom={6} ...>
initialZoom == 6
\* positions are pixels of the finest level the index answers for
UnitZoom == maxZoom + 1
World == <<0 - 1000000, 1000000>>

\* json.data of the answers of /api/jobs: jobs with an id and a position
JobsB == <<[id |-> "j1", x |-> 0], [id |-> "j2", x |-> 100], [id |-> "j3", x |-> 150]>>
JobsC == <<[id |-> "j3", x |-> 150], [id |-> "j4", x |-> 250]>>
Responses ==
    {[message |-> TRUE, data |-> <<>>],
     [message |-> FALSE, data |-> JobsB],
     [message |-> FALSE, data |-> JobsC]}
Delays == {0, 400}
ZoomLevels == {maxZoom, maxZoom + 1}
Bounds == {World, <<0, 120>>}

\* const points = jobs.map(...); idx.load(points)
Leaf(j) == [cluster |-> FALSE, point_count |-> 1, sumx |-> j.x, jobId |-> j.id,
            children |-> {}]
buildIndex(jobs) == [points |-> [i \in DOMAIN jobs |-> Leaf(jobs[i])]]

WithinHalfRadius(a, b, z) ==
    2 * Abs(a.sumx * b.point_count - b.sumx * a.point_count) * (2 ^ z)
        <= clusterRadius * (2 ^ UnitZoom) * a.point_count * b.point_count
\* two features are within the radius at a zoom: the distance of their
\* centroids, in pixels of that zoom, is at most the radius
WithinPixels(a, b, z) ==
    Abs(a.sumx * b.point_count - b.sumx * a.point_count) * (2 ^ z)
        <= clusterRadius * (2 ^ UnitZoom) * a.point_count * b.point_count

RECURSIVE Total(_, _)
Total(fs, field) ==
    IF fs = {} THEN 0
    ELSE LET f == CHOOSE g \in fs : TRUE IN f[field] + Total(fs \ {f}, field)
\* the aggregate of a feature and its neighbours: count and weighted centroid
Aggregate(fs) ==
    [cluster |-> TRUE,
     point_count |-> Total(fs, "point_count"),
     sumx |-> Total(fs, "sumx"),
     jobId |-> "",
     children |-> fs]

\* one level of the hierarchy: each feature not yet taken absorbs the
\* features not yet taken that are within the radius of it
RECURSIVE ClusterLevel(_, _, _, _)
ClusterLevel(fs, taken, i, z) ==
    IF i > Len(fs) THEN <<>>
    ELSE IF i \in taken THEN ClusterLevel(fs, taken, i + 1, z)
    ELSE LET near == {k \in (DOMAIN fs) \ (taken \cup {i}) : WithinPixels(fs[i], fs[k], z)}
         IN  IF near = {}
             THEN <<fs[i]>> \o ClusterLevel(fs, taken \cup {i}, i + 1, z)
             ELSE <<Aggregate({fs[k] : k \in near \cup {i}})>>
                    \o ClusterLevel(fs, taken \cup near \cup {i}, i + 1, z)

\* the features of a level: the points above maxZoom, and below it the
\* level above clustered once more
RECURSIVE Tree(_, _)
Tree(idx, z) ==
    IF z > maxZoom THEN idx.points ELSE ClusterLevel(Tree(idx, z + 1), {}, 1, z)

limitZoom(z) == Max({minZoom, Min({z, maxZoom + 1})})
InBounds(f, b) == b[1] * f.point_count <= f.sumx /\ f.sumx <= b[2] * f.point_count
\* index.getClusters(bbox, zoom)
getClusters(idx, b, z) == SelectSeq(Tree(idx, limitZoom(z)), LAMBDA f : InBounds(f, b))
\* index.getLeaves(clusterId, Infinity)
RECURSIVE getLeaves(_)
getLeaves(f) == IF f.cluster THEN UNION {getLeaves(c) : c \in f.children} ELSE {f}

NoLoads == <<>>
ClientIdle ==
    /\ controllerRef = 0
    /\ timerRef = 0
    /\ loads = NoLoads
    /\ homeJobs = [data |-> <<>>, by |-> 0]
    /\ mapRef = FALSE
    /\ view = [zoom |-> initialZoom, bbox |-> World]
    /\ index = buildIndex(<<>>)
    /\ handlerIndex = buildIndex(<<>>)
    /\ clusters = [list |-> <<>>, from |-> buildIndex(<<>>), zoom |-> initialZoom,
                   bbox |-> World, on |-> "none"]

\* if (controllerRef.current) controllerRef.current.abort()
AbortNothing(ls, c) == ls
Abort(ls, c) == IF c # 0 THEN [ls EXCEPT ![c].aborted = TRUE] ELSE ls
\* if (timerRef.current) window.clearTimeout(timerRef.current)
ClearTimeout(ls, t) ==
    IF t # 0 /\ ls[t].timer = "pending" THEN [ls EXCEPT ![t].timer = "cleared"] ELSE ls

\* loadJobs(opts) up to its first await: setLoading(true) and fetchWithCancel
\* as far as the delay promise or the fetch
LoadJobs(delay) ==
    /\ Len(loads) < MaxLoads
    /\ loads' = Append(ClearTimeout(Abort(loads, controllerRef), timerRef),
                       [pc |-> IF delay > 0 THEN "delay" ELSE "fetch",
                        aborted |-> FALSE,
                        timer |-> IF delay > 0 THEN "pending" ELSE "none",
                        wrote |-> FALSE])
    /\ controllerRef' = Len(loads) + 1
    /\ timerRef' = IF delay > 0 THEN Len(loads) + 1 ELSE timerRef
    /\ UNCHANGED <<homeJobs, mapRef, view, index, handlerIndex, clusters>>
    /\ UNCHANGED <<now, ticks, rlVars, thVars, geoVars, impVars, qVars, pVars, dbVars>>

\* the delay promise resolves: fetch(url, { signal }) is issued
DelayElapsed(i) ==
    /\ i \in DOMAIN loads
    /\ loads[i].pc = "delay" /\ loads[i].timer = "pending"
    /\ loads' = [loads EXCEPT ![i].pc = "fetch", ![i].timer = "fired"]
    /\ UNCHANGED <<controllerRef, timerRef, homeJobs, mapRef, view, index, handlerIndex,
                   clusters>>
    /\ UNCHANGED <<now, ticks, rlVars, thVars, geoVars, impVars, qVars, pVars, dbVars>>

\* const res = await fetch(url, { signal })
FetchResolves(i) ==
    /\ i \in DOMAIN loads
    /\ loads[i].pc = "fetch" /\ ~loads[i].aborted
    /\ loads' = [loads EXCEPT ![i].pc = "json"]
    /\ UNCHANGED <<controllerRef, timerRef, homeJobs, mapRef, view, index, handlerIndex,
                   clusters>>
    /\ UNCHANGED <<now, ticks, rlVars, thVars, geoVars, impVars, qVars, pVars, dbVars>>

\* setJobs(list) and the map's next render: the index is rebuilt from the
\* jobs (useMemo), and the effect on [index] queries it once a map exists
SetJobs(i, list) ==
    /\ homeJobs' = [data |-> list, by |-> i]
    /\ index' = buildIndex(list)
    /\ clusters' = IF mapRef
                   THEN [list |-> getClusters(buildIndex(list), view.bbox, view.zoom),
                         from |-> buildIndex(list), zoom |-> view.zoom,
                         bbox |-> view.bbox, on |-> "index"]
                   ELSE clusters
    /\ UNCHANGED <<mapRef, view, handlerIndex>>

\* const json = await res.json(), then setJobs of json.data or of [] on a
\* message, and the finally block
JsonResolves(i, r) ==
    /\ i \in DOMAIN loads
    /\ loads[i].pc = "json" /\ ~loads[i].aborted
    /\ LET list == IF r.message THEN <<>> ELSE r.data
       IN  /\ loads' = [loads EXCEPT ![i].pc = "done", ![i].wrote = TRUE]
           /\ SetJobs(i, list)
    /\ UNCHANGED <<controllerRef, timerRef>>
    /\ UNCHANGED <<now, ticks, rlVars, thVars, geoVars, impVars, qVars, pVars, dbVars>>

\* fetch or res.json() rejects with something other than an AbortError:
\* setError('Failed to fetch jobs'); setJobs([])
RequestFails(i) ==
    /\ i \in DOMAIN loads
    /\ loads[i].pc \in {"fetch", "json"} /\ ~loads[i].aborted
    /\ loads' = [loads EXCEPT ![i].pc = "done", ![i].wrote = TRUE]
    /\ SetJobs(i, <<>>)
    /\ UNCHANGED <<controllerRef, timerRef>>
    /\ UNCHANGED <<now, ticks, rlVars, thVars, geoVars, impVars, qVars, pVars, dbVars>>

\* the aborted fetch or body read rejects with an AbortError: loadJobs returns
AbortRejects(i) ==
    /\ i \in DOMAIN loads
    /\ loads[i].pc \in {"fetch", "json"} /\ loads[i].aborted
    /\ loads' = [loads EXCEPT ![i].pc = "canceled"]
    /\ UNCHANGED <<controllerRef, timerRef, homeJobs, mapRef, view, index, handlerIndex,
                   clusters>>
    /\ UNCHANGED <<now, ticks, rlVars, thVars, geoVars, impVars, qVars, pVars, dbVars>>

\* whenCreated={handleMapCreated}: mapRef.current = m, and the listener of
\* 'moveend zoomend' is registered with the index of this render
handleMapCreated ==
    /\ ~mapRef
    /\ mapRef' = TRUE
    /\ handlerIndex' = index
    /\ UNCHANGED <<controllerRef, timerRef, loads, homeJobs, view, index, clusters>>
    /\ UNCHANGED <<now, ticks, rlVars, thVars, geoVars, impVars, qVars, pVars, dbVars>>

\* the listener of 'moveend zoomend': index.getClusters(bbox, zoom) on the
\* index it closed over, then setClusters
MoveEnd(z, b) ==
    /\ mapRef
    /\ view' = [zoom |-> z, bbox |-> b]
    /\ clusters' = [list |-> getClusters(handlerIndex, b, z), from |-> handlerIndex,
                    zoom |-> z, bbox |-> b, on |-> "move"]
    /\ UNCHANGED <<controllerRef, timerRef, loads, homeJobs, mapRef, index, handlerIndex>>
    /\ UNCHANGED <<now, ticks, rlVars, thVars, geoVars, impVars, qVars, pVars, dbVars>>

QueryIdle ==
    /\ req = IdleReq
    /\ nreq = 0
    /\ jobsEnv = [production |-> FALSE, credentials |-> TRUE]

GeoIdle ==
    /\ useMapbox = FALSE
    /\ cache = EmptyCache
    /\ res = <<>>

\* no call has reached a throttle
ThrottleIdle ==
    /\ thCfg = nominatimThrottle
    /\ calls = <<>>
    /\ queue = <<>>
    /\ failedWhileQueued = FALSE

InitThrottle ==
    /\ now = 0
    /\ ticks = 0
    /\ ipStore = [k \in Keys |-> NoRec]
    /\ rl = NoCall
    /\ nth = [k \in Keys |-> 0]
    /\ logging = FALSE
    /\ allowedLog = [k \in Keys |-> EmptyLog]
    /\ thCfg \in {nominatimThrottle, throttle}
    /\ calls = <<>>
    /\ queue = <<>>
    /\ failedWhileQueued = FALSE
    /\ GeoIdle
    /\ ImportIdle
    /\ QueryIdle
    /\ ParamsIdle
    /\ StoreIdle
    /\ ClientIdle

NextThrottle == Submit \/ Start \/ Fail \/ Elapse \/ TimerFires
SpecThrottle == InitThrottle /\ [][NextThrottle]_vars
\* timers fire and due operations are started
FairSpecThrottle == SpecThrottle /\ WF_vars(Start) /\ WF_vars(TimerFires)

InitRL ==
    /\ now = 0
    /\ ticks = 0
    /\ ipStore = [k \in Keys |-> NoRec]
    /\ rl = NoCall
    /\ nth = [k \in Keys |-> 0]
    /\ logging = FALSE
    /\ allowedLog = [k \in Keys |-> EmptyLog]
    /\ ThrottleIdle
    /\ GeoIdle
    /\ ImportIdle
    /\ QueryIdle
    /\ ParamsIdle
    /\ StoreIdle
    /\ ClientIdle

NextRL == (\E k \in Keys : Admit(k)) \/ Tick
SpecRL == InitRL /\ [][NextRL]_vars

InitBurst ==
    /\ now = 0
    /\ ticks = 0
    /\ ipStore = [k \in Keys |-> NoRec]
    /\ rl = NoCall
    /\ nth = [k \in Keys |-> 0]
    /\ logging = TRUE
    /\ allowedLog = [k \in Keys |-> EmptyLog]
    /\ ThrottleIdle
    /\ GeoIdle
    /\ ImportIdle
    /\ QueryIdle
    /\ ParamsIdle
    /\ StoreIdle
    /\ ClientIdle

NextBurst == Admit("ipA") \/ Tick
SpecBurst == InitBurst /\ [][NextBurst]_vars

InitGeo ==
    /\ now = 0
    /\ ticks = 0
    /\ ipStore = [k \in Keys |-> NoRec]
    /\ rl = NoCall
    /\ nth = [k \in Keys |-> 0]
    /\ logging = FALSE
    /\ allowedLog = [k \in Keys |-> EmptyLog]
    /\ ThrottleIdle
    /\ useMapbox \in BOOLEAN
    /\ cache = EmptyCache
    /\ res = <<>>
    /\ ImportIdle
    /\ QueryIdle
    /\ ParamsIdle
    /\ StoreIdle
    /\ ClientIdle

NextGeo ==
    \/ \E in \in Inputs : Resolve(in.company, in.city)
    \/ \E c \in DOMAIN res : MapboxReturns(c)
    \/ \E c \in DOMAIN res : NominatimReturns(c)
    \/ Start
    \/ TimerFires
SpecGeo == InitGeo /\ [][NextGeo]_vars

InitImport ==
    /\ now = 0
    /\ ticks = 0
    /\ ipStore = [k \in Keys |-> NoRec]
    /\ rl = NoCall
    /\ nth = [k \in Keys |-> 0]
    /\ logging = FALSE
    /\ allowedLog = [k \in Keys |-> EmptyLog]
    /\ ThrottleIdle
    /\ GeoIdle
    /\ QueryIdle
    /\ ParamsIdle
    /\ StoreIdle
    /\ ClientIdle
    /\ env \in [CRON_SECRET : {<<>>, <<"s">>}, ADZUNA : BOOLEAN, SUPABASE : BOOLEAN]
    /\ run = IdleRun
    /\ runs = 0
    /\ publicJobs = {}
    /\ lastWritten = NoRows

\* a key whose window is full at time 0
SaturatedStore == [k \in Keys |-> IF k = "ipA" THEN [ts |-> 0, count |-> rateLimitMax]
                                                ELSE NoRec]
InitQuery ==
    /\ now = 0
    /\ ticks = 0
    /\ \/ ipStore = [k \in Keys |-> NoRec] /\ nth = [k \in Keys |-> 0]
       \/ ipStore = SaturatedStore
            /\ nth = [k \in Keys |-> IF k = "ipA" THEN rateLimitMax ELSE 0]
    /\ rl = NoCall
    /\ logging = FALSE
    /\ allowedLog = [k \in Keys |-> EmptyLog]
    /\ ThrottleIdle
    /\ useMapbox \in BOOLEAN
    /\ cache = EmptyCache
    /\ res = <<>>
    /\ ImportIdle
    /\ req = IdleReq
    /\ nreq = 0
    /\ jobsEnv \in [production : BOOLEAN, credentials : BOOLEAN]
    /\ ParamsIdle
    /\ StoreIdle
    /\ ClientIdle

NextQuery ==
    \/ \E k \in Keys, q \in Queries : Request(k, q)
    \/ FetchReturns
    \/ GeocodeNext
    \/ GeocodeThrows
    \/ GeocodeDone
    \/ \E c \in DOMAIN res : MapboxReturns(c)
    \/ \E c \in DOMAIN res : NominatimReturns(c)
    \/ Start
    \/ TimerFires
SpecQuery == InitQuery /\ [][NextQuery]_vars

InitParams ==
    /\ now = 0
    /\ ticks = 0
    /\ ipStore = [k \in Keys |-> NoRec]
    /\ rl = NoCall
    /\ nth = [k \in Keys |-> 0]
    /\ logging = FALSE
    /\ allowedLog = [k \in Keys |-> EmptyLog]
    /\ ThrottleIdle
    /\ GeoIdle
    /\ ImportIdle
    /\ QueryIdle
    /\ \/ \E rpp \in PagingValues, pg \in PagingValues, box \in Boxes \cup {NoParam},
             circle \in Circles, job \in Points :
            params = [results_per_page |-> rpp, page |-> pg, bbox |-> box,
                      center_lat |-> circle.center_lat, center_lon |-> circle.center_lon,
                      radius_km |-> circle.radius_km, job |-> job,
                      sort |-> "none", jobs |-> <<>>]
       \/ \E sort \in Sorts, list \in Listings :
            params = [results_per_page |-> NoParam, page |-> NoParam, bbox |-> NoParam,
                      center_lat |-> NoParam, center_lon |-> NoParam,
                      radius_km |-> NoParam, job |-> [lat |-> 4885, lon |-> 235],
                      sort |-> sort, jobs |-> list]
    /\ derived = NotDerived
    /\ StoreIdle
    /\ ClientIdle
NextParams == ParsePaging \/ FilterByBox \/ SortListing
SpecParams == InitParams /\ [][NextParams]_vars

InitStore ==
    /\ now = 0
    /\ ticks = 0
    /\ ipStore = [k \in Keys |-> NoRec]
    /\ rl = NoCall
    /\ nth = [k \in Keys |-> 0]
    /\ logging = FALSE
    /\ allowedLog = [k \in Keys |-> EmptyLog]
    /\ ThrottleIdle
    /\ GeoIdle
    /\ ImportIdle
    /\ QueryIdle
    /\ ParamsIdle
    /\ StoreIdle
    /\ ClientIdle
NextStore ==
    \/ \E id \in JobIds, new \in NewRows : InsertJob(id, new)
    \/ \E id \in JobIds, new \in NewRows : UpdateJob(id, new)
    \/ \E key \in GeocodeKeys, new \in NewRows : InsertGeocode(key, new)
    \/ \E key \in GeocodeKeys, new \in NewRows : UpdateGeocode(key, new)
    \/ \E in_km \in {1, 4}, limit_rows \in {NoNum, 0 - 1, 1, 2} :
            JobsWithinKm(48, 2, in_km, limit_rows)
SpecStore == InitStore /\ [][NextStore]_vars

InitClient ==
    /\ now = 0
    /\ ticks = 0
    /\ ipStore = [k \in Keys |-> NoRec]
    /\ rl = NoCall
    /\ nth = [k \in Keys |-> 0]
    /\ logging = FALSE
    /\ allowedLog = [k \in Keys |-> EmptyLog]
    /\ ThrottleIdle
    /\ GeoIdle
    /\ ImportIdle
    /\ QueryIdle
    /\ ParamsIdle
    /\ StoreIdle
    /\ ClientIdle
NextClient ==
    \/ \E delay \in Delays : LoadJobs(delay)
    \/ \E i \in 1..MaxLoads : DelayElapsed(i)
    \/ \E i \in 1..MaxLoads : FetchResolves(i)
    \/ \E i \in 1..MaxLoads, r \in Responses : JsonResolves(i, r)
    \/ \E i \in 1..MaxLoads : RequestFails(i)
    \/ \E i \in 1..MaxLoads : AbortRejects(i)
    \/ handleMapCreated
    \/ \E z \in ZoomLevels, b \in Bounds : MoveEnd(z, b)
SpecClient == InitClient /\ [][NextClient]_vars

NextImport == (\E secret \in Secrets : POST(secret)) \/ PageReturns \/ UpsertReturns
SpecImport == InitImport /\ [][NextImport]_vars

(***************************************************************************)
(* Claims about the provider throttle                                      *)
(***************************************************************************)
Started(i) == calls[i].startAt # NotStarted
\* the limits the claim states: 1 for the secondary geocoder, 5 for the job source
ClaimedLimit == IF thCfg.name = "nominatim" THEN 1 ELSE 5
ClaimedInterval == 1000
\* calls whose operation starts inside [t, t + T)
StartsWithin(t) ==
    {j \in DOMAIN calls : /\ Started(j)
                          /\ calls[j].startAt >= t
                          /\ calls[j].startAt - t < ClaimedInterval}

\* C5: across all callers of one throttle instance (limit 1 for the secondary
\* geocoder, limit 5 for the job-source fetch) no more than limit operations
\* start within any interval of length 1000 ms (every such interval that holds
\* a start is covered by the one beginning at its first start).
C5_AtMostLimitPerInterval ==
    \A i \in DOMAIN calls :
        Started(i) => Cardinality(StartsWithin(calls[i].startAt)) <= ClaimedLimit
C5_Witness ==
    /\ thCfg = throttle
    /\ Len(calls) >= 6 /\ Started(6)
    /\ Cardinality(StartsWithin(calls[1].startAt)) = 5
    /\ calls[6].startAt > calls[6].submitAt

\* C6: calls are started in call order: if A was submitted before B, A's
\* operation starts no later than B's.
C6_StartsInCallOrder ==
    \A i, j \in DOMAIN calls :
        (i < j /\ Started(j)) => (Started(i) /\ calls[i].startAt <= calls[j].startAt)
C6_Witness ==
    \E i, j \in DOMAIN calls :
        /\ i < j /\ Started(i) /\ Started(j)
        /\ calls[i].startAt > calls[i].submitAt
        /\ calls[j].startAt > calls[i].startAt
        /\ calls[j].submitAt < calls[i].startAt

\* C7: the throttle never drops a call: every submitted call eventually
\* starts its operation, however many calls are queued ahead of it (a call,
\* once submitted, stays submitted and, once started, stays started, so this
\* is: again and again, the i-th call is not yet submitted or has started).
C7_EveryCallStarts ==
    \A i \in 1..MaxCalls(throttle) :
        []<>(Len(calls) < i \/ calls[i].startAt # NotStarted)
C7_Witness ==
    \E i \in DOMAIN calls :
        /\ Started(i) /\ i >= 3
        /\ calls[i].startAt >= calls[i].submitAt + 2 * ClaimedInterval

\* the start times the submission times alone determine for the first k calls:
\* a call starts once submitted, not before its predecessor, and not less than
\* one interval after the call `limit` places ahead of it
RECURSIVE Schedule(_, _, _)
Schedule(cs, cfg, k) ==
    IF k = 0 THEN <<>>
    ELSE LET s == Schedule(cs, cfg, k - 1) IN
         Append(s, Max({cs[k].submitAt}
                       \cup (IF k > 1 THEN {s[k - 1]} ELSE {})
                       \cup (IF k > cfg.limit
                             THEN {s[k - cfg.limit] + cfg.interval} ELSE {})))

\* C8: an operation that fails does not change when or whether the other
\* operations start: every call starts at the time fixed by the submission
\* times alone, whatever the outcomes of the operations started before it.
C8_FailureDoesNotReschedule ==
    LET expected == Schedule(calls, thCfg, Len(calls)) IN
    \A i \in DOMAIN calls :
        /\ Started(i) => calls[i].startAt = expected[i]
        /\ ~Started(i) => now <= expected[i]
C8_Witness ==
    /\ failedWhileQueued
    /\ Len(calls) = MaxCalls(thCfg)
    /\ \A i \in DOMAIN calls : Started(i)

(***************************************************************************)
(* Claims about the geocode resolver                                       *)
(***************************************************************************)
\* the call invoked no provider: neither geocodeMapbox nor the throttled Nominatim
NoProviderCall(c) == res[c].primary = "none" /\ res[c].tc = 0

\* C9: once a resolve call for the same normalized key has completed, or the
\* cache holds an entry for the key when the call is made, the call issues no
\* provider network call and returns the cached value (also a cached null).
C9_CachedKeyNeedsNoLookup ==
    \A c \in DOMAIN res :
        (res[c].priorDone \/ res[c].cachedAtEntry) =>
            /\ NoProviderCall(c)
            /\ res[c].pc = "done"
            /\ res[c].cachedAtEntry => res[c].result = res[c].entryValue

\* C10: when the primary provider call throws, the secondary provider is
\* still attempted through the throttle before null is cached and returned.
C10_PrimaryThrowFallsThrough ==
    \A c \in DOMAIN res :
        (res[c].primary = "throw" /\ res[c].pc = "done") =>
            (res[c].tc # 0 /\ calls[res[c].tc].startAt # NotStarted)

\* C11: a call whose company and city are both empty after normalization
\* (absent, empty or whitespace-only: the key "|") returns null at once, with no
\* provider call and no cache entry made for the key.
C11_EmptyKeyNeverLookedUp ==
    /\ ~CacheHas(cache, <<"|">>)
    /\ \A c \in DOMAIN res :
        res[c].key = <<"|">> =>
            /\ NoProviderCall(c)
            /\ res[c].pc = "done"
            /\ res[c].result = Null

\* C12: on a cache miss the primary provider is called only when a credential
\* is configured; the secondary provider is called only after the primary gave
\* no result (a miss, or disabled), and only as a call of the throttle; a primary
\* success is returned without a secondary call, and is cached when it returns.
C12_Order ==
    \A c \in DOMAIN res :
        /\ res[c].primary # "none" => (useMapbox /\ ~res[c].cachedAtEntry)
        /\ res[c].tc # 0 =>
            /\ ~res[c].cachedAtEntry
            /\ res[c].primary = (IF useMapbox THEN "miss" ELSE "none")
            /\ res[c].tc \in DOMAIN calls
            /\ calls[res[c].tc].owner = c
        /\ res[c].primary = "hit" =>
            /\ res[c].tc = 0
            /\ res[c].pc = "done"
            /\ res[c].result \in Coords
C12_HitCached ==
    \A c \in DOMAIN res :
        (res[c].primary = "pending" /\ res'[c].primary = "hit") =>
            (CacheHas(cache', res[c].key) /\ cache'[res[c].key] = res'[c].result)
C12_ProviderOrder == []C12_Order /\ [][C12_HitCached]_vars
C12_Witness ==
    \E c, d \in DOMAIN res :
        /\ res[c].primary = "miss" /\ res[c].pc = "done"
        /\ calls[res[c].tc].startAt # NotStarted
        /\ res[d].primary = "hit"

\* C13: once the cache holds an entry for a key, no later step changes the
\* entry's value, under every interleaving of resolve calls.
C13_EntryImmutable ==
    [][\A k \in DOMAIN cache : CacheHas(cache', k) /\ cache'[k] = cache[k]]_vars

(***************************************************************************)
(* Claims about the job normalizer and the ingestion pipeline              *)
(***************************************************************************)
\* C14: every normalized record, and every row sent to the store, has lat and
\* lon either both set or both unset; a raw record with only one of
\* latitude / longitude as a number gives both unset.
C14_LatLonTogether ==
    /\ \A i \in DOMAIN run.upserts :
        IsNumber(run.upserts[i].lat) <=> IsNumber(run.upserts[i].lon)
    /\ \A i \in DOMAIN run.sent :
        IsNumber(run.sent[i].lat) <=> IsNumber(run.sent[i].lon)

\* title, company, city and postedAt of a row, each normalized to lowercase
LowerFields(row) ==
    <<ToLowerCase(row.title), ToLowerCase(row.company), ToLowerCase(row.city),
      ToLowerCase(Coalesce(row.posted_at, <<>>))>>
\* C15: two records that differ only in the letter casing of title, company,
\* city or postedAt get the same uniq_hash.
C15_HashIgnoresCase ==
    \A i, j \in DOMAIN run.upserts :
        LowerFields(run.upserts[i]) = LowerFields(run.upserts[j]) =>
            run.upserts[i].uniq_hash = run.upserts[j].uniq_hash

\* C16: the store holds at most one row per uniq_hash, and that row is the
\* record most recently written with that hash.
C16_OneRowPerHashLatestWins ==
    /\ \A r1, r2 \in publicJobs : r1.uniq_hash = r2.uniq_hash => r1 = r2
    /\ \A h \in DOMAIN lastWritten : lastWritten[h] \in publicJobs
    /\ \A r \in publicJobs : r.uniq_hash \in DOMAIN lastWritten
C16_Witness ==
    /\ run.status = 200
    /\ \E i, j \in DOMAIN run.sent :
        /\ i < j
        /\ run.sent[i].uniq_hash = run.sent[j].uniq_hash
        /\ run.sent[i] # run.sent[j]
        /\ run.sent[j] \in publicJobs
        /\ run.sent[i] \notin publicJobs

\* C17: for every record of the batch sent to the store that has no
\* coordinates, the geocode resolver was invoked with its company and city
\* before the upsert.
C17_ResolverInvokedBeforeUpsert ==
    \A i \in DOMAIN run.sent :
        (~IsNumber(run.sent[i].lat) \/ ~IsNumber(run.sent[i].lon)) =>
            \E c \in DOMAIN res :
                res[c].company = run.sent[i].company /\ res[c].city = run.sent[i].city

\* C19: an error on the fetch of any page aborts the run: no upsert call is
\* made, nothing is sent to the store, and the run ends as a failure (500),
\* not as {imported: N}.
C19_PageErrorAbortsRun ==
    run.failedPage # 0 =>
        /\ run.pc = "done"
        /\ run.status = 500
        /\ run.imported = NoCount
        /\ run.upsertCalls = 0
        /\ run.sent = <<>>
C19_Witness ==
    /\ run.failedPage = Len(pagesToFetch)
    /\ NormalizeAll(run.allResults) # <<>>
    /\ run.pc = "done"

\* C20: when all pages were fetched and no record survives normalization, the
\* run answers {imported: 0} and makes no upsert call.
C20_NothingSurvivesNoUpsert ==
    (/\ run.page = 0
     /\ Len(run.requested) = Len(pagesToFetch)
     /\ run.failedPage = 0
     /\ NormalizeAll(run.allResults) = <<>>) =>
        /\ run.pc = "done"
        /\ run.status = 200
        /\ run.imported = 0
        /\ run.upsertCalls = 0
        /\ run.sent = <<>>
C20_Witness ==
    /\ run.pc = "done"
    /\ run.page = 0
    /\ Len(run.requested) = Len(pagesToFetch)
    /\ run.failedPage = 0
    /\ run.allResults # <<>>
    /\ NormalizeAll(run.allResults) = <<>>
    /\ run.imported = 0

\* C21: within a run the pages are requested in list order, the fetch of a
\* page starts only after the fetch of the previous page has completed, and
\* at most one page fetch is in flight at any time.
C21_PagesFetchedOneByOne ==
    /\ Cardinality(run.inFlight) <= 1
    /\ Len(run.requested) <= Len(pagesToFetch)
    /\ run.requested = SubSeq(pagesToFetch, 1, Len(run.requested))
    /\ run.pc = "fetch" =>
        /\ Len(run.requested) = run.page
        /\ run.inFlight = {pagesToFetch[run.page]}
    /\ run.pc # "fetch" => run.inFlight = {}
C21_Witness ==
    /\ run.pc = "fetch"
    /\ run.page = Len(pagesToFetch)
    /\ run.inFlight = {pagesToFetch[Len(pagesToFetch)]}
    /\ run.allResults # <<>>

\* the uniq_hash values of a batch
Hashes(batch) == {batch[i].uniq_hash : i \in DOMAIN batch}
\* C22: when two records of the batch a run has sent share a uniq_hash and the
\* run answers {imported: N}, the store holds one row for each hash of the
\* batch and N is the number of distinct hashes written.
C22_DuplicateNotDoubleCounted ==
    (/\ run.pc = "done" /\ run.status = 200
     /\ \E i, j \in DOMAIN run.sent :
            i < j /\ run.sent[i].uniq_hash = run.sent[j].uniq_hash) =>
        /\ \A h \in Hashes(run.sent) :
            Cardinality({r \in publicJobs : r.uniq_hash = h}) = 1
        /\ run.imported = Cardinality(Hashes(run.sent))

\* C23: a request whose x-cron-secret header is missing or differs from the
\* configured secret, and any request when no secret is configured, is answered
\* 401 and causes no page fetch and no store write.
C23_Unauthorized ==
    run.pc # "idle" /\ (env.CRON_SECRET = <<>> \/ run.secret # env.CRON_SECRET)
C23_Rejected ==
    C23_Unauthorized =>
        /\ run.pc = "done"
        /\ run.status = 401
        /\ run.requested = <<>>
        /\ run.inFlight = {}
        /\ run.upsertCalls = 0
        /\ run.sent = <<>>
C23_NoWrite ==
    C23_Unauthorized' => (publicJobs' = publicJobs /\ lastWritten' = lastWritten)
C23_ImportTriggerProtected == []C23_Rejected /\ [][C23_NoWrite]_vars
C23_Witness ==
    /\ run.status = 401
    /\ run.secret = <<"x">>
    /\ env.CRON_SECRET = <<"s">>
    /\ publicJobs # {}

(***************************************************************************)
(* Claims about the query handler                                          *)
(***************************************************************************)
\* the coordinates the upstream record itself supplies
SuppliedLat(raw) == PickNumber(raw.latitude, raw.locLatitude)
SuppliedLon(raw) == PickNumber(raw.longitude, raw.locLongitude)
\* the loop has dealt with position i of mapped
Passed(i) == req.i > i

\* C18: for every record whose lat and lon are both set by normalization the
\* geocode resolver is not invoked, and the record is put out with the lat and
\* lon the upstream record supplied.
C18_GeocodeOnlyFillsGaps ==
    \A i \in DOMAIN req.mapped :
        (/\ req.mapped[i] # NullJob
         /\ IsNumber(SuppliedLat(req.raws[i]))
         /\ IsNumber(SuppliedLon(req.raws[i]))) =>
            /\ i \notin req.geocoded
            /\ \A o \in DOMAIN req.out :
                req.out[o].idx = i =>
                    /\ req.out[o].job.lat = SuppliedLat(req.raws[i])
                    /\ req.out[o].job.lon = SuppliedLon(req.raws[i])
            /\ Passed(i) => \E o \in DOMAIN req.out : req.out[o].idx = i
C18_Witness ==
    /\ req.pc = "done" /\ req.status = 200
    /\ \E o, f \in DOMAIN req.out :
        /\ req.out[o].idx \notin req.geocoded
        /\ req.out[f].idx \in req.geocoded
        /\ req.out[f].job.lat # SuppliedLat(req.raws[req.out[f].idx])

\* C24: a request the rate limiter rejects for its client identifier is
\* answered 429 with a Retry-After of at least one second and has issued no
\* upstream fetch and no geocoding call; a request that has fetched was
\* admitted; and the step that answers 429 leaves the geocode cache, the
\* resolver calls and the provider throttle as they were.
C24_RejectedOutcome ==
    /\ req.pc # "idle" => (rl.key = req.ip /\ (req.status = 429 <=> ~rl.ok))
    /\ req.status = 429 =>
        /\ req.pc = "done"
        /\ req.hint = "rate"
        /\ req.retryAfter >= 1
        /\ req.retryAfter = CeilSeconds(rl.retryAfterMs)
        /\ req.fetches = 0
        /\ req.geocoded = {}
        /\ req.data = <<>>
    /\ req.fetches > 0 => rl.ok
C24_RejectionSilent == req'.status = 429 => UNCHANGED <<cache, res, calls, queue>>
C24_RejectedRequestStopsAtLimiter == []C24_RejectedOutcome /\ [][C24_RejectionSilent]_vars
C24_Witness ==
    /\ req.status = 429
    /\ req.ip = "ipA"
    /\ req.retryAfter = 60
    /\ ipStore["ipA"].count = rateLimitMax

\* C27: a request whose upstream results hold a malformed record (a null
\* entry, or a company object without display_name) is still answered 200.
Malformed(r) == Throws(r) \/ ~IsString(r.company)
C27_MalformedRecordLocal ==
    (req.pc = "done" /\ \E i \in DOMAIN req.raws : Malformed(req.raws[i]))
        => req.status = 200

\* C28: an admitted request in production without the credential pair is
\* answered 500 with the configuration hint and issues no upstream fetch and no
\* geocoding call; an admitted request outside production issues the upstream
\* fetch whether or not the credentials are set.
C28_ConfigurationError ==
    /\ (req.pc # "idle" /\ rl.ok /\ jobsEnv.production /\ ~jobsEnv.credentials) =>
        /\ req.pc = "done"
        /\ req.status = 500
        /\ req.hint = "config"
        /\ req.fetches = 0
        /\ req.geocoded = {}
    /\ (req.pc # "idle" /\ rl.ok /\ ~jobsEnv.production) => req.fetches = 1
    /\ req.hint = "config" => (jobsEnv.production /\ ~jobsEnv.credentials)
C28_Witness ==
    /\ jobsEnv = [production |-> TRUE, credentials |-> FALSE]
    /\ req.status = 500
    /\ req.hint = "config"
    /\ rl.ok

\* C30: every job of the response data has both lat and lon, whatever the
\* filter; a job whose geocode-fill attempt found nothing is in neither the
\* jobs kept after the loop nor the data.
Skipped(i) ==
    /\ i \in req.geocoded
    /\ req.i > i
    /\ \E c \in DOMAIN res :
        res[c].company = req.mapped[i].company /\ res[c].pc = "done" /\ res[c].result = Null
    /\ \A c \in DOMAIN res :
        (res[c].company = req.mapped[i].company /\ res[c].pc = "done") => res[c].result = Null
C30_NoJobWithoutCoordinates ==
    /\ \A o \in DOMAIN req.data :
        IsNumber(req.data[o].job.lat) /\ IsNumber(req.data[o].job.lon)
    /\ \A i \in DOMAIN req.mapped :
        Skipped(i) => /\ \A o \in DOMAIN req.out : req.out[o].idx # i
                      /\ \A o \in DOMAIN req.data : req.data[o].idx # i
C30_Witness ==
    /\ req.status = 200
    /\ Given(req.query.bbox) \/ Given(req.query.radius_km)
    /\ req.data # <<>>
    /\ \E i \in DOMAIN req.mapped : Skipped(i)

(***************************************************************************)
(* Claims about the handler's request parameters                           *)
(***************************************************************************)
\* C25: with bbox "2.0,48.0,2.5,48.5" the filter keeps a job at (lat 48.2,
\* lon 2.2) and removes a job at (lat 49.0, lon 2.2).
C25_CanonicalBoxExample ==
    (params.bbox = <<200, 4800, 250, 4850>> /\ derived.matched # Unset) =>
        /\ params.job = [lat |-> 4820, lon |-> 220] => derived.matched = "in"
        /\ params.job = [lat |-> 4900, lon |-> 220] => derived.matched = "out"

\* inclusive range test, whatever the order of the two ends
Between(x, u, v) == (u <= x /\ x <= v) \/ (v <= x /\ x <= u)
Within(x, limit) == 0 - limit <= x /\ x <= limit
\* the verdict of the filter on a 4-number box read lat-first or lon-first
Verdict(latFirst(_, _, _, _)) ==
    LET a == params.bbox[1]
        b == params.bbox[2]
        c == params.bbox[3]
        d == params.bbox[4]
        inside == IF latFirst(a, b, c, d)
                  THEN Between(params.job.lat, a, c) /\ Between(params.job.lon, b, d)
                  ELSE Between(params.job.lat, b, d) /\ Between(params.job.lon, a, c)
    IN  IF inside THEN "in" ELSE "out"
FourNumbers ==
    Len(params.bbox) = 4 /\ \A n \in DOMAIN params.bbox : params.bbox[n] # NaN
\* C26 as stated: a 4-number box is read as minLat,minLon,maxLat,maxLon iff all
\* four numbers are within [-90, 90], as minLon,minLat,maxLon,maxLat otherwise,
\* and a job matches iff its lat and lon lie in the resulting inclusive ranges.
AllWithinLatitude(a, b, c, d) ==
    Within(a, 90 * 100) /\ Within(b, 90 * 100) /\ Within(c, 90 * 100) /\ Within(d, 90 * 100)
LatitudesThenLongitudes(a, b, c, d) ==
    Within(a, 90 * 100) /\ Within(c, 90 * 100) /\ Within(b, 180 * 100) /\ Within(d, 180 * 100)
C29_PageSizeBounded ==
    derived.url.built =>
        /\ derived.url.results_per_page \in 1..100
        /\ derived.url.page # NaN
        /\ derived.url.page >= 1

(***************************************************************************)
(* Claims about the rate limiter                                           *)
(***************************************************************************)

\* C1: within one window of a key exactly the first rateLimitMax (60)
\* admission calls are allowed and every further one (the 61st on) is
\* rejected; the stored count of a key never exceeds 60.
C1_WindowAdmitsExactlyMax ==
    /\ \A k \in Keys : ipStore[k].count <= rateLimitMax
    /\ rl.key # "none" => (rl.ok <=> rl.nth <= rateLimitMax)
C1_Witness ==
    /\ rl.key = "ipA" /\ ~rl.ok /\ rl.nth = rateLimitMax + 1
    /\ ipStore["ipA"].count = rateLimitMax

\* C2: every rejected admission call returns retryAfterMs > 0, equal to
\* W - (now - windowStartTimestamp), also when now - windowStartTimestamp = W.
C2_RejectedRetryPositive ==
    (rl.key # "none" /\ ~rl.ok) =>
        /\ rl.retryAfterMs > 0
        /\ rl.retryAfterMs = rateLimitWindowMs - (rl.at - rl.before.ts)

\* C3: a call made once the window has elapsed (now - windowStartTimestamp
\* >= W) is allowed, even for a saturated key, and resets the key to a new
\* window starting at now with count 1.
C3_ElapsedWindowAdmits ==
    (rl.key # "none" /\ rl.before # NoRec
        /\ rl.at - rl.before.ts >= rateLimitWindowMs) =>
        /\ rl.ok
        /\ ipStore[rl.key] = [ts |-> rl.at, count |-> 1]

\* C4: for any key, the number of allowed calls inside any time interval of
\* length W is at most 2 * rateLimitMax (every such interval that holds an
\* allowed call is covered by [now - W, now] at the state after its last call).
C4_BurstAtMostTwiceMax ==
    \A k \in Keys : AllowedInLastWindow(k) <= 2 * rateLimitMax
C4_Witness ==
    /\ AllowedInLastWindow("ipA") = 2 * rateLimitMax - 1
    /\ ipStore["ipA"].count = rateLimitMax

\* C38: a rejected admission call leaves ipStore as it was (the key's ts and
\* count included), and an admission call for one key leaves the record of
\* every other key as it was.
C38_RejectedKeepsRecord == (rl # NoCall /\ ~rl.ok) => ipStore[rl.key] = rl.before
C38_CallFrame ==
    nth' # nth =>
        /\ ~rl'.ok => ipStore' = ipStore
        /\ \A k \in Keys \ {rl'.key} : ipStore'[k] = ipStore[k]
C38_LimiterFrame == []C38_RejectedKeepsRecord /\ [][C38_CallFrame]_vars
C38_Witness ==
    /\ ~rl.ok
    /\ rl.key = "ipA"
    /\ ipStore["ipA"].count = rateLimitMax
    /\ ipStore["ipB"].count > 0

\* C34: a run answered 200 after its upsert reports as imported the number of
\* rows the store wrote (one when the store answers with a single object),
\* whatever the shape of the store's answer.
C34_ImportCountFromStore ==
    (run.pc = "done" /\ run.status = 200 /\ run.body # "none") =>
        run.imported = IF run.body = "object" THEN 1 ELSE RowsReported(run.sent)

\* C35: a resolve call made for a key while a provider lookup of an earlier
\* call for that key has not settled issues no provider lookup, and no two
\* calls for one key both issue a provider lookup.
C35_SingleLookupPerKey ==
    /\ \A c \in DOMAIN res : res[c].inFlightAtEntry => NoProviderCall(c)
    /\ \A c, e \in DOMAIN res :
        (c # e /\ res[c].key = res[e].key /\ res[e].inFlightAtEntry)
            => NoProviderCall(c) \/ NoProviderCall(e)

\* C32: with no bbox and a centre and radius given, a job is kept if and only
\* if its haversine distance from the centre is at most the radius; with centre
\* (48.85, 2.35) and radius 10 km a job 5 km away is kept and a job 50 km away
\* is removed.
CircleGiven ==
    /\ ~Given(params.bbox)
    /\ Given(params.center_lat) /\ Given(params.center_lon) /\ Given(params.radius_km)
DistanceKm ==
    HaversineKm(Number(params.center_lat), Number(params.center_lon),
                params.job.lat, params.job.lon)
C32_RadiusFilter ==
    (derived.matched # Unset /\ CircleGiven) =>
        /\ derived.matched = "in" <=> DistanceKm <= Number(params.radius_km)
        /\ Number(params.radius_km) = 10 =>
            /\ params.job = [lat |-> 4889, lon |-> 238] => derived.matched = "in"
            /\ params.job = [lat |-> 4930, lon |-> 235] => derived.matched = "out"
C32_Witness ==
    /\ CircleGiven
    /\ Number(params.radius_km) = 5
    /\ params.job = [lat |-> 4889, lon |-> 238]
    /\ DistanceKm = 5
    /\ derived.matched = "in"

\* C39: when bbox is a non-empty string the centre and radius play no part: a
\* bbox of exactly 4 numbers decides alone, and with any other bbox the job is
\* kept.
C39_BoxExcludesCircle ==
    (derived.matched # Unset /\ Given(params.bbox)) =>
        derived.matched =
            IF FourNumbers
            THEN Verdict(LatitudesThenLongitudes)
            ELSE "in"
C39_Witness ==
    /\ params.bbox = <<NaN, 4800, 250, 4850>>
    /\ params.center_lat = <<4885>>
    /\ params.radius_km = <<10>>
    /\ params.job = [lat |-> 4930, lon |-> 235]
    /\ derived.matched = "in"

\* C31: for sort = salary_desc the output is ordered by salary_max
\* non-increasing, for salary_asc by salary_min non-decreasing, for date_desc
\* by parsed posted_at non-increasing, a missing value counting as 0; for every
\* value of sort the output holds exactly the jobs of the input.
NonIncreasing(list, key(_)) ==
    \A i, j \in DOMAIN list : i < j => key(list[i]) >= key(list[j])
SalaryMax(j) == IF j.salary_max = NoNum THEN 0 ELSE j.salary_max
SalaryMinNeg(j) == IF j.salary_min = NoNum THEN 0 ELSE 0 - j.salary_min
PostedAt(j) == IF j.posted_at = Absent THEN 0 ELSE DateParse(j.posted_at)
Occurrences(list, x) == Cardinality({i \in DOMAIN list : list[i] = x})
C31_Sorting ==
    derived.sorted.done =>
        LET out == derived.sorted.list IN
        /\ Len(out) = Len(params.jobs)
        /\ \A x \in SortJobs : Occurrences(out, x) = Occurrences(params.jobs, x)
        /\ params.sort = "salary_desc" => NonIncreasing(out, SalaryMax)
        /\ params.sort = "salary_asc" => NonIncreasing(out, SalaryMinNeg)
        /\ params.sort = "date_desc" => NonIncreasing(out, PostedAt)
C31_Witness ==
    /\ derived.sorted.done
    /\ params.sort = "date_desc"
    /\ Len(params.jobs) = 3
    /\ derived.sorted.list # params.jobs
    /\ derived.sorted.list[2].posted_at = Absent
    /\ derived.sorted.list[3].posted_at = <<"1969-12-31">>

\* C40: in every row of public.jobs and of public.geocode_cache geom is set if
\* and only if lat and lon are both set; jobs_within_km returns only rows with
\* both coordinates, and at most LEAST(GREATEST(limit_rows, 1), 1000) of them.
GeomMatchesCoordinates(row) == row.geom # NullGeom <=> (row.lat # NoNum /\ row.lon # NoNum)
RowLimit(limit_rows) ==
    IF limit_rows = NoNum \/ limit_rows < 1 THEN 1
    ELSE IF limit_rows > 1000 THEN 1000 ELSE limit_rows
C40_GeometryInvariant ==
    /\ \A id \in DOMAIN jobsTable : GeomMatchesCoordinates(jobsTable[id])
    /\ \A key \in DOMAIN geocodeTable : GeomMatchesCoordinates(geocodeTable[key])
    /\ rpc.called =>
        /\ \A i \in DOMAIN rpc.rows : rpc.rows[i].lat # NoNum /\ rpc.rows[i].lon # NoNum
        /\ Len(rpc.rows) <= RowLimit(rpc.limit_rows)
C40_Witness ==
    /\ \E id \in DOMAIN jobsTable : jobsTable[id].lat # NoNum /\ jobsTable[id].lon = NoNum
    /\ \E id \in DOMAIN jobsTable : jobsTable[id].geom = MakePoint(2, 45)
    /\ \E key \in DOMAIN geocodeTable : geocodeTable[key].geom = NullGeom
    /\ rpc.called
    /\ rpc.limit_rows = 0 - 1
    /\ Len(rpc.rows) = 1

(***************************************************************************)
(* Claims about the page's job loading and the map's clustering            *)
(***************************************************************************)
\* no call can take a further step: each one returned, or was cancelled, or
\* waits on a delay whose timer was cleared
LoadsSettled ==
    /\ Len(loads) > 0
    /\ \A i \in DOMAIN loads :
        \/ loads[i].pc \in {"done", "canceled"}
        \/ loads[i].pc = "delay" /\ loads[i].timer = "cleared"
WritesOnlyByLatest ==
    /\ \A i \in DOMAIN loads : (loads'[i].wrote /\ ~loads[i].wrote) => i = Len(loads)
    /\ homeJobs' # homeJobs => homeJobs'.by = Len(loads)
\* C37: a loadJobs call superseded by a newer one (aborted, or its debounce
\* timer cleared) never writes the jobs state, and once every call has
\* settled the jobs state is the one written by the most recent call.
C37_SupersededNeverWrites ==
    [](LoadsSettled => homeJobs.by = Len(loads)) /\ [][WritesOnlyByLatest]_vars
C37_Witness ==
    /\ Len(loads) = 3
    /\ loads[1].pc = "canceled"
    /\ loads[2].pc = "delay" /\ loads[2].timer = "cleared"
    /\ loads[3].pc = "done"
    /\ homeJobs = [data |-> JobsB, by |-> 3]

\* C36: the clusters computed on a move or zoom event come from the index
\* built from the current jobs list, never from an index captured when the
\* map was created.
C36_MoveUsesCurrentIndex == clusters.on = "move" => clusters.from = index

\* two points of an index are closer than the cluster radius at a zoom
CloserThanRadius(a, b, z) == Abs(a.sumx - b.sumx) * (2 ^ z) <= clusterRadius * (2 ^ UnitZoom)
AloneAt(pts, p, q, z) ==
    \A r \in (DOMAIN pts) \ {p, q} :
        ~CloserThanRadius(pts[r], pts[p], z) /\ ~CloserThanRadius(pts[r], pts[q], z)
LeafIds(f) == {l.jobId : l \in getLeaves(f)}
PairsAreOneCluster(zooms) ==
    (clusters.on # "none" /\ clusters.zoom \in zooms) =>
        LET pts == clusters.from.points
            z == clusters.zoom
        IN  \A p, q \in DOMAIN pts :
                ( /\ p < q
                  /\ CloserThanRadius(pts[p], pts[q], z)
                  /\ AloneAt(pts, p, q, z)
                  /\ InBounds(pts[p], clusters.bbox) /\ InBounds(pts[q], clusters.bbox) )
                => \E k \in DOMAIN clusters.list :
                        /\ clusters.list[k].cluster
                        /\ clusters.list[k].point_count = 2
                        /\ LeafIds(clusters.list[k]) = {pts[p].jobId, pts[q].jobId}
====
